---- MODULE Spec2Model ----
(***************************************************************************)
(* Modbus RTU industrial server (src/modbus_industrial_server.py): the     *)
(* CRC codec, the request dispatcher with its nine handlers, the slave     *)
(* store and the per-slave statistics, together with the client side of    *)
(* the wire (src/test.py) that builds requests and verifies responses.     *)
(*                                                                         *)
(* Bytes are integers 0..255, frames are sequences of bytes, a Python dict *)
(* is a function whose DOMAIN is the set of its keys, and None (like the   *)
(* empty bytes object, which `if response:` treats alike) is <<>>.         *)
(***************************************************************************)
EXTENDS Integers, Sequences, FiniteSets, TLC

VARIABLES
    config,          \* self.config['server']: the loaded configuration
    slaves,          \* self.slaves: slave_id -> SlaveConfig (the five sub-stores)
    stats,           \* self.stats: slave_id -> ConnectionStats counters
    serial_is_open,  \* self.serial_port is set and self.serial_port.is_open
    in_waiting,      \* the bytes that arrived at the port and were not read yet
    pool,            \* self.executor: the submitted tasks that have not finished
    is_running,      \* self.is_running
    server_thread,   \* self.server_thread: where the thread is in _server_loop
    executor_shutdown, \* self.executor has been shut down
    old_threads,     \* where each earlier server thread that is still alive is
    connect_call,    \* the last _connect_serial of start_server: attempts, outcome
    op,              \* the operation that ran last
    request,         \* the frame last handed to _process_request (<<>> if none)
    sent,            \* the frames written to the serial port by the last operation
    nops             \* number of operations run so far

vars == <<config, slaves, stats, serial_is_open, in_waiting, pool, is_running,
          server_thread, executor_shutdown, old_threads, connect_call, op, request,
          sent, nops>>

(***************************************************************************)
(* Bounds of the model.                                                    *)
(***************************************************************************)
MaxOps == 3

(***************************************************************************)
(* Integer helpers: Python's >>, &, | and ^ on non-negative integers.      *)
(***************************************************************************)
None == <<>>

\* one call of _connect_serial: how many of the coming attempts to open the
\* device fail, how many attempts the call made, whether it raised
ConnectCall(failing, attempts, raised) ==
    [failing |-> failing, attempts |-> attempts, raised |-> raised]

Min(a, b) == IF a < b THEN a ELSE b

\* (v >> 8) & 0xFF
Hi(v) == (v \div 256) % 256

\* v & 0xFF
Lo(v) == v % 256

\* (hi << 8) | lo for two bytes
Word(hi, lo) == hi * 256 + lo

RECURSIVE XorBits(_, _)
XorBits(a, b) ==
    IF a = 0 THEN b
    ELSE IF b = 0 THEN a
    ELSE (((a % 2) + (b % 2)) % 2) + 2 * XorBits(a \div 2, b \div 2)

\* a ^ b on bytes, tabulated once
XorByte == [a \in 0..255 |-> [b \in 0..255 |-> XorBits(a, b)]]

\* a ^ b on 16-bit values
Xor(a, b) == XorByte[a % 256][b % 256] + 256 * XorByte[Hi(a)][Hi(b)]

RECURSIVE BitSet(_, _)
\* value & (1 << bit) # 0
BitSet(value, bit) == IF bit = 0 THEN value % 2 = 1 ELSE BitSet(value \div 2, bit - 1)

RECURSIVE Shl1(_)
\* 1 << bit
Shl1(bit) == IF bit = 0 THEN 1 ELSE 2 * Shl1(bit - 1)

(***************************************************************************)
(* CRC-16 Modbus.  The register loop is the one both the server            *)
(* (_calculate_crc) and the client (calculate_crc) run: crc ^= byte, then  *)
(* eight times: shift right, and xor the polynomial in if the bit shifted  *)
(* out was 1.                                                              *)
(***************************************************************************)
RECURSIVE crc_bit_loop(_, _, _)
crc_bit_loop(crc, poly, k) ==
    IF k = 0 THEN crc
    ELSE IF crc % 2 = 1 THEN crc_bit_loop(Xor(crc \div 2, poly), poly, k - 1)
    ELSE crc_bit_loop(crc \div 2, poly, k - 1)

RECURSIVE crc_byte_loop(_, _, _, _, _)
\* for byte in data[lo..hi], in order (the range is halved to keep the evaluation
\* shallow on long frames; the bytes are still folded in left to right)
crc_byte_loop(crc, poly, data, lo, hi) ==
    IF lo > hi THEN crc
    ELSE IF lo = hi THEN crc_bit_loop(Xor(crc, data[lo]), poly, 8)
    ELSE LET mid == (lo + hi) \div 2
             first_half == crc_byte_loop(crc, poly, data, lo, mid)
         IN  IF first_half >= 0
             THEN crc_byte_loop(first_half, poly, data, mid + 1, hi)
             ELSE first_half

\* int.to_bytes(2, 'little')
to_bytes_little(crc) == <<Lo(crc), Hi(crc)>>

\* int.to_bytes(2, 'big'): the byte order a CRC must not be sent in
to_bytes_big(crc) == <<Hi(crc), Lo(crc)>>

\* the client's CRC (src/test.py), used to frame requests and verify responses
calculate_crc(data) == to_bytes_little(crc_byte_loop(65535, 40961, data, 1, Len(data)))

_calculate_crc_big_endian(data) == to_bytes_big(crc_byte_loop(65535, 40961, data, 1, Len(data)))

\* the server's CRC
_calculate_crc(data) == to_bytes_little(crc_byte_loop(65535, 40961, data, 1, Len(data)))

\* data[:-2] and data[-2:]
ButLast2(data) == SubSeq(data, 1, Len(data) - 2)

Last2(data) == SubSeq(data, Len(data) - 1, Len(data))

_validate_crc_low_byte_only(data) ==
    IF Len(data) < 3 THEN FALSE
    ELSE data[Len(data) - 1] = _calculate_crc(ButLast2(data))[1]

_validate_crc(data) ==
    IF Len(data) < 3 THEN FALSE
    ELSE Last2(data) = _calculate_crc(ButLast2(data))

\* the client's check of a received frame: recompute and compare
client_crc_ok(response) ==
    /\ Len(response) >= 2
    /\ Last2(response) = calculate_crc(ButLast2(response))

(***************************************************************************)
(* Python containers.                                                      *)
(***************************************************************************)
\* data[i] with Python's 0-based index
At(data, i) == data[i + 1]

\* data[lo:hi]: a slice is cut to the data that is there
Slice(data, lo, hi) == SubSeq(data, lo + 1, Min(hi, Len(data)))

\* d[k] = v on a dict
Put(d, k, v) == [x \in DOMAIN d \cup {k} |-> IF x = k THEN v ELSE d[x]]

\* del d[k]
Del(d, k) == [x \in DOMAIN d \ {k} |-> d[x]]

\* b'\x00' * n
Zeros(n) == [i \in 1..n |-> 0]

(***************************************************************************)
(* The slave store.                                                        *)
(***************************************************************************)
ConnectionStats ==
    [total_requests |-> 0, successful_requests |-> 0, failed_requests |-> 0,
     bytes_sent |-> 0, bytes_received |-> 0]

create_example_slave ==
    [slave_id |-> 1,
     name |-> "Example Industrial Device",
     holding_registers |-> (2014 :> 16256) @@ (2015 :> 17095) @@ (2016 :> 1000)
                           @@ (2017 :> 2500) @@ (2018 :> 750),
     input_registers |-> (3001 :> 25) @@ (3002 :> 1013) @@ (3003 :> 60),
     coils |-> (1 :> TRUE) @@ (2 :> FALSE) @@ (3 :> TRUE),
     discrete_inputs |-> (10001 :> TRUE) @@ (10002 :> FALSE) @@ (10003 :> TRUE),
     file_records |->
        (1 :> (  (0 :> <<73, 78, 68, 85, 83, 84, 82, 73, 65, 76, 95, 68, 69, 86, 73,
                         67, 69, 95, 86, 49, 46, 48, 0, 0, 0, 0, 0, 0, 0, 0>>)
              @@ (1 :> <<83, 69, 82, 73, 65, 76, 95, 49, 50, 51, 52, 53, 54, 55, 56,
                         0, 0, 0, 0, 0, 0, 0, 0, 0, 0, 0, 0>>)
              @@ (2 :> <<67, 79, 78, 70, 73, 71, 95, 68, 65, 84, 65, 95, 72, 69, 82,
                         69, 0, 0, 0, 0, 0, 0, 0, 0, 0, 0, 0, 0>>)))]

\* a second device, with nothing stored yet
spare_slave ==
    [slave_id |-> 2,
     name |-> "Spare",
     holding_registers |-> <<>>,
     input_registers |-> <<>>,
     coils |-> <<>>,
     discrete_inputs |-> <<>>,
     file_records |-> <<>>]

\* config['server']['max_slaves'], the default
max_slaves == 10

(***************************************************************************)
(* The write side of the port.  Both operators give the frames that reach  *)
(* the wire: one frame, or none when the port is not open.                 *)
(***************************************************************************)
_send_response(response) == IF serial_is_open THEN <<response>> ELSE <<>>

\* function_code | 0x80
Or80(function_code) == IF function_code >= 128 THEN function_code ELSE function_code + 128

exception_frame(slave_id, function_code, exception_code) ==
    LET response_bytes == <<slave_id, Or80(function_code), exception_code>>
    IN response_bytes \o _calculate_crc(response_bytes)

_send_exception_response(slave_id, function_code, exception_code) ==
    _send_response(exception_frame(slave_id, function_code, exception_code))

(***************************************************************************)
(* What a handler leaves behind: the response it returns (None when it     *)
(* returns None), the frames it wrote itself (its exception response) and  *)
(* the slave as it left it.                                                *)
(***************************************************************************)
Handled(response, wire, slave) == [response |-> response, wire |-> wire, slave |-> slave]

(***************************************************************************)
(* Read handlers 0x03, 0x04, 0x01, 0x02.  Their except branches are not    *)
(* modelled as reachable: every element put in the response is masked to a *)
(* byte and the byte count is at most 250, so bytes() cannot raise.        *)
(***************************************************************************)
read_registers_quantity_illegal_off_by_one(quantity) == quantity < 1 \/ quantity > 126

\* if quantity < 1 or quantity > 125
read_registers_quantity_illegal(quantity) == quantity < 1 \/ quantity > 125

\* if quantity < 1 or quantity > 2000
read_bits_quantity_illegal(quantity) == quantity < 1 \/ quantity > 2000

\* the value read at addr: the stored one, 0 for a non-existent register
stored_or_zero(registers, addr) == IF addr \in DOMAIN registers THEN registers[addr] ELSE 0

register_bytes_low_byte_first(registers, start_address, quantity) ==
    [k \in 1..(2 * quantity) |->
        LET value == stored_or_zero(registers, start_address + (k - 1) \div 2)
        IN  IF k % 2 = 1 THEN Lo(value) ELSE Hi(value)]

\* for addr in range(start_address, start_address + quantity): the value's high
\* byte, then its low byte
register_bytes(registers, start_address, quantity) ==
    [k \in 1..(2 * quantity) |->
        LET value == stored_or_zero(registers, start_address + (k - 1) \div 2)
        IN  IF k % 2 = 1 THEN Hi(value) ELSE Lo(value)]

RECURSIVE packed_byte_beyond_quantity(_, _, _, _, _)
packed_byte_beyond_quantity(bits, start_address, quantity, byte_idx, bit_idx) ==
    IF bit_idx >= 8 THEN 0
    ELSE LET coil_addr == start_address + byte_idx * 8 + bit_idx
         IN (IF coil_addr \in DOMAIN bits /\ bits[coil_addr] THEN Shl1(bit_idx) ELSE 0)
            + packed_byte_beyond_quantity(bits, start_address, quantity, byte_idx,
                                          bit_idx + 1)

RECURSIVE packed_byte(_, _, _, _, _)
\* for bit_idx in range(8): byte_value |= (1 << bit_idx) for each address below
\* start_address + quantity that is present and true
packed_byte(bits, start_address, quantity, byte_idx, bit_idx) ==
    IF bit_idx >= 8 THEN 0
    ELSE LET coil_addr == start_address + byte_idx * 8 + bit_idx
         IN (IF /\ coil_addr < start_address + quantity
                /\ coil_addr \in DOMAIN bits
                /\ bits[coil_addr]
             THEN Shl1(bit_idx) ELSE 0)
            + packed_byte(bits, start_address, quantity, byte_idx, bit_idx + 1)

\* for byte_idx in range(byte_count)
packed_bytes(bits, start_address, quantity, byte_count) ==
    [k \in 1..byte_count |-> packed_byte(bits, start_address, quantity, k - 1, 0)]

read_registers(slave_id, request_data, function_code, registers) ==
    IF Len(request_data) < 8 THEN Handled(None, <<>>, slaves[slave_id])
    ELSE
        LET start_address == Word(At(request_data, 2), At(request_data, 3))
            quantity == Word(At(request_data, 4), At(request_data, 5))
        IN  IF read_registers_quantity_illegal(quantity)
            THEN Handled(None, _send_exception_response(slave_id, function_code, 3),
                         slaves[slave_id])
            ELSE
                LET response_bytes ==
                        <<slave_id, function_code, quantity * 2>>
                        \o register_bytes(registers, start_address, quantity)
                IN  Handled(response_bytes \o _calculate_crc(response_bytes), <<>>,
                            slaves[slave_id])

read_bits(slave_id, request_data, function_code, bits) ==
    IF Len(request_data) < 8 THEN Handled(None, <<>>, slaves[slave_id])
    ELSE
        LET start_address == Word(At(request_data, 2), At(request_data, 3))
            quantity == Word(At(request_data, 4), At(request_data, 5))
        IN  IF read_bits_quantity_illegal(quantity)
            THEN Handled(None, _send_exception_response(slave_id, function_code, 3),
                         slaves[slave_id])
            ELSE
                LET byte_count == (quantity + 7) \div 8
                    response_bytes ==
                        <<slave_id, function_code, byte_count>>
                        \o packed_bytes(bits, start_address, quantity, byte_count)
                IN  Handled(response_bytes \o _calculate_crc(response_bytes), <<>>,
                            slaves[slave_id])

_handle_read_holding_registers_creating_keys(slave_id, request_data) ==
    LET handled == read_registers(slave_id, request_data, 3,
                                  slaves[slave_id].holding_registers)
        start_address == Word(At(request_data, 2), At(request_data, 3))
        quantity == Word(At(request_data, 4), At(request_data, 5))
        registers == slaves[slave_id].holding_registers
    IN  IF handled.response = None THEN handled
        ELSE Handled(handled.response, handled.wire,
                     [slaves[slave_id] EXCEPT !.holding_registers =
                        [x \in DOMAIN registers
                                \cup start_address..(start_address + quantity - 1) |->
                            stored_or_zero(registers, x)]])

_handle_read_holding_registers(slave_id, request_data) ==
    read_registers(slave_id, request_data, 3, slaves[slave_id].holding_registers)

_handle_read_input_registers(slave_id, request_data) ==
    read_registers(slave_id, request_data, 4, slaves[slave_id].input_registers)

_handle_read_coils(slave_id, request_data) ==
    read_bits(slave_id, request_data, 1, slaves[slave_id].coils)

_handle_read_discrete_inputs(slave_id, request_data) ==
    read_bits(slave_id, request_data, 2, slaves[slave_id].discrete_inputs)

(***************************************************************************)
(* Write handlers 0x05, 0x06, 0x0F, 0x10.                                  *)
(***************************************************************************)
coil_value_legal_accepts_all(coil_value) == TRUE

\* coil_value in [0x0000, 0xFF00]
coil_value_legal(coil_value) == coil_value \in {0, 65280}

echoed_without_value(request_data) == SubSeq(request_data, 1, 4)

\* response_bytes = request_data[:-2]
echoed(request_data) == ButLast2(request_data)

_handle_write_single_coil(slave_id, request_data) ==
    IF Len(request_data) < 8 THEN Handled(None, <<>>, slaves[slave_id])
    ELSE
        LET coil_address == Word(At(request_data, 2), At(request_data, 3))
            coil_value == Word(At(request_data, 4), At(request_data, 5))
            slave == slaves[slave_id]
            response_bytes == echoed(request_data)
        IN  IF ~coil_value_legal(coil_value)
            THEN Handled(None, _send_exception_response(slave_id, 5, 3), slave)
            ELSE Handled(response_bytes \o _calculate_crc(response_bytes), <<>>,
                         [slave EXCEPT !.coils = Put(@, coil_address, coil_value = 65280)])

stored_register_value_low_byte(register_value) == register_value % 256

\* the value that slave.holding_registers[register_address] = register_value stores
stored_register_value(register_value) == register_value

_handle_write_single_register(slave_id, request_data) ==
    IF Len(request_data) < 8 THEN Handled(None, <<>>, slaves[slave_id])
    ELSE
        LET register_address == Word(At(request_data, 2), At(request_data, 3))
            register_value == Word(At(request_data, 4), At(request_data, 5))
            slave == slaves[slave_id]
            response_bytes == echoed(request_data)
        IN  Handled(response_bytes \o _calculate_crc(response_bytes), <<>>,
                    [slave EXCEPT !.holding_registers =
                        Put(@, register_address, stored_register_value(register_value))])

\* What a write loop leaves behind: the sub-store after the assignments made
\* and whether an index into the data raised IndexError before the loop's end.
Looped(store, raised) == [store |-> store, raised |-> raised]

coil_bit_index_reversed(i) == 7 - (i % 8)

\* bit_idx = i % 8
coil_bit_index(i) == i % 8

RECURSIVE write_coils_loop(_, _, _, _, _)
\* for i in range(quantity): coils[start_address + i] = bit i % 8 of coil_data[i // 8]
write_coils_loop(coils, coil_data, start_address, i, quantity) ==
    IF i >= quantity THEN Looped(coils, FALSE)
    ELSE IF i \div 8 >= Len(coil_data) THEN Looped(coils, TRUE)
    ELSE write_coils_loop(
            Put(coils, start_address + i, BitSet(At(coil_data, i \div 8), coil_bit_index(i))),
            coil_data, start_address, i + 1, quantity)

RECURSIVE write_registers_loop(_, _, _, _, _)
\* for i in range(quantity): holding_registers[start_address + i] =
\*     (register_data[i*2] << 8) | register_data[i*2 + 1]
write_registers_loop(registers, register_data, start_address, i, quantity) ==
    IF i >= quantity THEN Looped(registers, FALSE)
    ELSE IF i * 2 + 1 >= Len(register_data) THEN Looped(registers, TRUE)
    ELSE write_registers_loop(
            Put(registers, start_address + i,
                stored_register_value(Word(At(register_data, i * 2), At(register_data, i * 2 + 1)))),
            register_data, start_address, i + 1, quantity)

write_coils_request_illegal_quantity_only(quantity, byte_count) ==
    quantity < 1 \/ quantity > 1968

\* if quantity < 1 or quantity > 1968 or byte_count != (quantity + 7) // 8
write_coils_request_illegal(quantity, byte_count) ==
    quantity < 1 \/ quantity > 1968 \/ byte_count # (quantity + 7) \div 8

\* if quantity < 1 or quantity > 123 or byte_count != quantity * 2
write_registers_request_illegal(quantity, byte_count) ==
    quantity < 1 \/ quantity > 123 \/ byte_count # quantity * 2

_handle_write_multiple_coils(slave_id, request_data) ==
    IF Len(request_data) < 9 THEN Handled(None, <<>>, slaves[slave_id])
    ELSE
        LET start_address == Word(At(request_data, 2), At(request_data, 3))
            quantity == Word(At(request_data, 4), At(request_data, 5))
            byte_count == At(request_data, 6)
            slave == slaves[slave_id]
            coil_data == Slice(request_data, 7, 7 + byte_count)
            loop == write_coils_loop(slave.coils, coil_data, start_address, 0, quantity)
            written == [slave EXCEPT !.coils = loop.store]
            response_bytes == <<slave_id, 15>> \o Slice(request_data, 2, 6)
        IN  IF write_coils_request_illegal(quantity, byte_count)
            THEN Handled(None, _send_exception_response(slave_id, 15, 3), slave)
            ELSE IF loop.raised
            THEN Handled(None, _send_exception_response(slave_id, 15, 4), written)
            ELSE Handled(response_bytes \o _calculate_crc(response_bytes), <<>>, written)

_handle_write_multiple_registers(slave_id, request_data) ==
    IF Len(request_data) < 9 THEN Handled(None, <<>>, slaves[slave_id])
    ELSE
        LET start_address == Word(At(request_data, 2), At(request_data, 3))
            quantity == Word(At(request_data, 4), At(request_data, 5))
            byte_count == At(request_data, 6)
            slave == slaves[slave_id]
            register_data == Slice(request_data, 7, 7 + byte_count)
            loop == write_registers_loop(slave.holding_registers, register_data,
                                         start_address, 0, quantity)
            written == [slave EXCEPT !.holding_registers = loop.store]
            response_bytes == <<slave_id, 16>> \o Slice(request_data, 2, 6)
        IN  IF write_registers_request_illegal(quantity, byte_count)
            THEN Handled(None, _send_exception_response(slave_id, 16, 3), slave)
            ELSE IF loop.raised
            THEN Handled(None, _send_exception_response(slave_id, 16, 4), written)
            ELSE Handled(response_bytes \o _calculate_crc(response_bytes), <<>>, written)

(***************************************************************************)
(* Read file records 0x14.  bytes(response_data) raises ValueError when    *)
(* response_data_length does not fit a byte; the handler's except branch   *)
(* then answers with exception 0x04.                                       *)
(***************************************************************************)
\* truncate or pad file_data to record_length * 2 bytes
normalized_file_data(file_data, record_length) ==
    IF Len(file_data) > record_length * 2 THEN SubSeq(file_data, 1, record_length * 2)
    ELSE IF Len(file_data) < record_length * 2
    THEN file_data \o Zeros(record_length * 2 - Len(file_data))
    ELSE file_data

empty_record_data_padded(record_length) == Zeros(Min(record_length * 2, 8))

\* the data bytes after the reference type when the file or record is not stored
empty_record_data(record_length) == <<>>

_handle_read_file_records(slave_id, request_data) ==
    IF Len(request_data) < 10 THEN Handled(None, <<>>, slaves[slave_id])
    ELSE
        LET byte_count == At(request_data, 2)
            reference_type == At(request_data, 3)
            file_number == Word(At(request_data, 4), At(request_data, 5))
            record_number == Word(At(request_data, 6), At(request_data, 7))
            record_length == Word(At(request_data, 8), At(request_data, 9))
            slave == slaves[slave_id]
            found == /\ file_number \in DOMAIN slave.file_records
                     /\ record_number \in DOMAIN slave.file_records[file_number]
            file_data == normalized_file_data(slave.file_records[file_number][record_number],
                                              record_length)
            file_response_length == IF found THEN Len(file_data) + 1 ELSE 1
            response_data_length == IF found THEN file_response_length + 1 ELSE 2
            response_bytes ==
                <<slave_id, 20, response_data_length, file_response_length, reference_type>>
                \o (IF found THEN file_data ELSE empty_record_data(record_length))
        IN  IF byte_count # 7
            THEN Handled(None, _send_exception_response(slave_id, 20, 3), slave)
            ELSE IF reference_type # 6
            THEN Handled(None, _send_exception_response(slave_id, 20, 3), slave)
            ELSE IF response_data_length > 255
            THEN Handled(None, _send_exception_response(slave_id, 20, 4), slave)
            ELSE Handled(response_bytes \o _calculate_crc(response_bytes), <<>>, slave)

(***************************************************************************)
(* The dispatcher.  What one call leaves behind: the store, the counters   *)
(* and the frames written to the port.                                     *)
(***************************************************************************)
Processed(new_slaves, new_stats, wire) ==
    [slaves |-> new_slaves, stats |-> new_stats, wire |-> wire]

SupportedFunctionCodes == {1, 2, 3, 4, 5, 6, 15, 16, 20}

\* the if/elif chain on function_code
dispatch(function_code, slave_id, request_data) ==
    CASE function_code = 3 -> _handle_read_holding_registers(slave_id, request_data)
      [] function_code = 4 -> _handle_read_input_registers(slave_id, request_data)
      [] function_code = 1 -> _handle_read_coils(slave_id, request_data)
      [] function_code = 2 -> _handle_read_discrete_inputs(slave_id, request_data)
      [] function_code = 5 -> _handle_write_single_coil(slave_id, request_data)
      [] function_code = 6 -> _handle_write_single_register(slave_id, request_data)
      [] function_code = 15 -> _handle_write_multiple_coils(slave_id, request_data)
      [] function_code = 16 -> _handle_write_multiple_registers(slave_id, request_data)
      [] function_code = 20 -> _handle_read_file_records(slave_id, request_data)

count_request_creating_record(slave_id, request_data) ==
    LET known == IF slave_id \in DOMAIN stats THEN stats
                 ELSE Put(stats, slave_id, ConnectionStats)
    IN  [known EXCEPT ![slave_id].total_requests = @ + 1,
                      ![slave_id].bytes_received = @ + Len(request_data)]

\* if slave_id in self.stats: total_requests += 1; bytes_received += len(request_data)
count_request(slave_id, request_data) ==
    IF slave_id \in DOMAIN stats
    THEN [stats EXCEPT ![slave_id].total_requests = @ + 1,
                       ![slave_id].bytes_received = @ + Len(request_data)]
    ELSE stats

\* if slave_id not in self.slaves
unknown_slave(slave_id) == slave_id \notin DOMAIN slaves

count_failed_skipped(counted, slave_id) == counted

\* if slave_id in self.stats: self.stats[slave_id].failed_requests += 1
count_failed(counted, slave_id) ==
    IF slave_id \in DOMAIN counted
    THEN [counted EXCEPT ![slave_id].failed_requests = @ + 1]
    ELSE counted

_process_request(request_data) ==
    IF Len(request_data) < 4 THEN Processed(slaves, stats, <<>>)
    ELSE
        LET slave_id == At(request_data, 0)
            function_code == At(request_data, 1)
            counted == count_request(slave_id, request_data)
            handled == dispatch(function_code, slave_id, request_data)
        IN  IF unknown_slave(slave_id)
            THEN Processed(slaves, counted,
                           _send_exception_response(slave_id, function_code, 11))
            ELSE IF ~_validate_crc(request_data)
            THEN Processed(slaves, counted, <<>>)
            ELSE IF function_code \notin SupportedFunctionCodes
            THEN Processed(slaves, counted,
                           _send_exception_response(slave_id, function_code, 1))
            ELSE IF handled.response # None
            THEN Processed(
                    [slaves EXCEPT ![slave_id] = handled.slave],
                    IF slave_id \in DOMAIN counted
                    THEN [counted EXCEPT ![slave_id].successful_requests = @ + 1,
                                         ![slave_id].bytes_sent = @ + Len(handled.response)]
                    ELSE counted,
                    handled.wire \o _send_response(handled.response))
            ELSE Processed(
                    [slaves EXCEPT ![slave_id] = handled.slave],
                    count_failed(counted, slave_id),
                    handled.wire)

(***************************************************************************)
(* Administrative operations on the store.                                 *)
(***************************************************************************)
\* add_slave: raises ValueError, changing nothing, when max_slaves are configured
ceiling_reached_when_above(count) == count > config.max_slaves

\* len(self.slaves) >= self.config['server']['max_slaves']
ceiling_reached(count) == count >= config.max_slaves

add_slave(slave_config) ==
    /\ nops < MaxOps
    /\ nops' = nops + 1
    /\ IF ceiling_reached(Cardinality(DOMAIN slaves))
       THEN /\ op' = "add_slave_raised"
            /\ UNCHANGED <<slaves, stats>>
       ELSE /\ op' = "add_slave"
            /\ slaves' = Put(slaves, slave_config.slave_id, slave_config)
            /\ stats' = Put(stats, slave_config.slave_id, ConnectionStats)
    /\ request' = <<>>
    /\ sent' = <<>>
    /\ UNCHANGED <<config, executor_shutdown, old_threads, connect_call, is_running, server_thread, serial_is_open, in_waiting, pool>>

remove_slave_keeping_stats(slave_id) ==
    /\ nops < MaxOps
    /\ nops' = nops + 1
    /\ op' = "remove_slave"
    /\ slaves' = IF slave_id \in DOMAIN slaves THEN Del(slaves, slave_id) ELSE slaves
    /\ request' = <<>>
    /\ sent' = <<>>
    /\ UNCHANGED <<config, executor_shutdown, old_threads, connect_call, is_running, server_thread, stats, serial_is_open, in_waiting, pool>>

remove_slave(slave_id) ==
    /\ nops < MaxOps
    /\ nops' = nops + 1
    /\ op' = "remove_slave"
    /\ IF slave_id \in DOMAIN slaves
       THEN /\ slaves' = Del(slaves, slave_id)
            /\ stats' = Del(stats, slave_id)
       ELSE UNCHANGED <<slaves, stats>>
    /\ request' = <<>>
    /\ sent' = <<>>
    /\ UNCHANGED <<config, executor_shutdown, old_threads, connect_call, is_running, server_thread, serial_is_open, in_waiting, pool>>

\* an update that replaces the sub-store by the one key it sets
updated_slave_dropping_other_keys(slave, register_type, address, value) ==
    CASE register_type = "holding" ->
            [slave EXCEPT !.holding_registers = Put(<<>>, address, value)]
      [] register_type = "input" ->
            [slave EXCEPT !.input_registers = Put(<<>>, address, value)]
      [] register_type = "coil" ->
            [slave EXCEPT !.coils = Put(<<>>, address, value # 0)]
      [] register_type = "discrete" ->
            [slave EXCEPT !.discrete_inputs = Put(<<>>, address, value # 0)]
      [] OTHER -> slave

\* the slave after update_register's assignment; value is an integer, so int(value)
\* is value and bool(value) is value # 0
updated_slave(slave, register_type, address, value) ==
    CASE register_type = "holding" ->
            [slave EXCEPT !.holding_registers = Put(@, address, value)]
      [] register_type = "input" ->
            [slave EXCEPT !.input_registers = Put(@, address, value)]
      [] register_type = "coil" ->
            [slave EXCEPT !.coils = Put(@, address, value # 0)]
      [] register_type = "discrete" ->
            [slave EXCEPT !.discrete_inputs = Put(@, address, value # 0)]
      [] OTHER -> slave

RegisterTypes == {"holding", "input", "coil", "discrete"}

update_register(slave_id, register_type, address, value) ==
    /\ nops < MaxOps
    /\ nops' = nops + 1
    /\ IF slave_id \in DOMAIN slaves /\ register_type \in RegisterTypes
       THEN /\ op' = "update_register"
            /\ slaves' = [slaves EXCEPT ![slave_id] =
                            updated_slave(@, register_type, address, value)]
       ELSE /\ op' = "update_register_false"
            /\ UNCHANGED slaves
    /\ request' = <<>>
    /\ sent' = <<>>
    /\ UNCHANGED <<config, executor_shutdown, old_threads, connect_call, is_running, server_thread, stats, serial_is_open, in_waiting, pool>>

(***************************************************************************)
(* The frame reader.  `buffer` holds the bytes waiting in the port; a      *)
(* read of `size` bytes returns what is there, fewer when the timeout      *)
(* elapses first.                                                          *)
(***************************************************************************)
read(buffer, position, size) ==
    SubSeq(buffer, position + 1, Min(Len(buffer), position + size))

\* what _read_request returns, and how many bytes it took from the port
ReadResult(request_data, consumed) ==
    [request_data |-> request_data, consumed |-> consumed]

\* a reader that takes byte_count bytes after the count and leaves the CRC behind
read_counted_without_crc(buffer, position) ==
    LET byte_count_read == read(buffer, position, 1)
    IN  IF byte_count_read = <<>>
        THEN ReadResult(None, position)
        ELSE LET byte_count == byte_count_read[1]
                 data == read(buffer, position + 1, byte_count)
             IN  ReadResult(SubSeq(buffer, 1, position) \o <<byte_count>> \o data,
                            position + 1 + Len(data))

\* `byte_count = read(1)[0]` then `read(byte_count + 2)`; read(1)[0] on an
\* empty read raises IndexError, which the reader's except turns into None
read_counted(buffer, position) ==
    LET byte_count_read == read(buffer, position, 1)
    IN  IF byte_count_read = <<>>
        THEN ReadResult(None, position)
        ELSE LET byte_count == byte_count_read[1]
                 data == read(buffer, position + 1, byte_count + 2)
             IN  ReadResult(SubSeq(buffer, 1, position) \o <<byte_count>> \o data,
                            position + 1 + Len(data))

\* a reader that takes a frame with any other function code as an 8-byte frame
\* and hands it on
_read_request_handing_unsupported(buffer) ==
    LET header == read(buffer, 0, 2)
    IN  IF Len(header) < 2
        THEN ReadResult(None, Len(header))
        ELSE LET function_code == header[2]
             IN  IF function_code = 15 \/ function_code = 16
                 THEN LET byte_count_data == read(buffer, 2, 4)
                      IN  IF Len(byte_count_data) < 4
                          THEN ReadResult(None, 2 + Len(byte_count_data))
                          ELSE read_counted(buffer, 6)
                 ELSE IF function_code = 20
                 THEN read_counted(buffer, 2)
                 ELSE LET remaining == read(buffer, 2, 6)
                      IN  IF Len(remaining) < 6
                          THEN ReadResult(None, 2 + Len(remaining))
                          ELSE ReadResult(header \o remaining, 8)

_read_request(buffer) ==
    LET header == read(buffer, 0, 2)
    IN  IF Len(header) < 2
        THEN ReadResult(None, Len(header))
        ELSE LET function_code == header[2]
             IN  IF function_code \in {1, 2, 3, 4, 5, 6}
                 THEN LET remaining == read(buffer, 2, 6)
                      IN  IF Len(remaining) < 6
                          THEN ReadResult(None, 2 + Len(remaining))
                          ELSE ReadResult(header \o remaining, 8)
                 ELSE IF function_code = 15 \/ function_code = 16
                 THEN LET byte_count_data == read(buffer, 2, 4)
                      IN  IF Len(byte_count_data) < 4
                          THEN ReadResult(None, 2 + Len(byte_count_data))
                          ELSE read_counted(buffer, 6)
                 ELSE IF function_code = 20
                 THEN read_counted(buffer, 2)
                 ELSE ReadResult(None, 2)

(***************************************************************************)
(* One pass of the server loop over an open port: `arrived` joins the      *)
(* bytes waiting in the port, the reader takes one frame from them, and a  *)
(* worker runs _process_request on the frame it is handed.  The bytes the  *)
(* reader did not take stay in the port for the next pass.  This is the    *)
(* schedule in which the worker finishes before the next pass begins, so   *)
(* the pool is empty between two passes.                                   *)
(***************************************************************************)
\* lines 298-303 with bytes waiting in the open port
read_and_process(arrived) ==
    /\ nops < MaxOps
    /\ serial_is_open
    /\ Len(in_waiting \o arrived) > 0
    /\ nops' = nops + 1
    /\ LET buffer == in_waiting \o arrived
           got == _read_request(buffer)
       IN  /\ in_waiting' = SubSeq(buffer, got.consumed + 1, Len(buffer))
           /\ request' = got.request_data
           /\ IF got.request_data = None
              THEN /\ op' = "read_abandoned"
                   /\ sent' = <<>>
                   /\ UNCHANGED <<slaves, stats>>
              ELSE IF executor_shutdown
              THEN \* submit raises RuntimeError on an executor that was shut
                   \* down; the except of the loop logs it and sleeps
                   /\ op' = "submit_raised"
                   /\ sent' = <<>>
                   /\ UNCHANGED <<slaves, stats>>
              ELSE LET processed == _process_request(got.request_data)
                   IN  /\ op' = "process_request"
                       /\ slaves' = processed.slaves
                       /\ stats' = processed.stats
                       /\ sent' = processed.wire
    /\ UNCHANGED <<config, executor_shutdown, connect_call, is_running, serial_is_open, pool>>

\* one pass of a running server, from the loop condition back to it
_server_loop(arrived) ==
    /\ is_running
    /\ server_thread = "while"
    /\ read_and_process(arrived)
    /\ UNCHANGED <<server_thread, old_threads>>

(***************************************************************************)
(* The server thread step by step, with stop_server called from another    *)
(* thread (the signal handler, the web interface).  The thread is at       *)
(*   "while"   the loop condition `while self.is_running`                  *)
(*   "body"    inside the loop, before the test of the port                *)
(*   "exited"  past the loop                                               *)
(***************************************************************************)
\* while self.is_running:
loop_condition ==
    /\ server_thread = "while"
    /\ server_thread' = IF is_running THEN "body" ELSE "exited"
    /\ op' = "loop_condition"
    /\ request' = <<>>
    /\ sent' = <<>>
    /\ UNCHANGED <<config, executor_shutdown, old_threads, connect_call, is_running, slaves, stats, serial_is_open, in_waiting, pool, nops>>

\* the port is not open: self._connect_serial(); continue.  _connect_serial
\* sets self.serial_port to a new open port, or raises after its five
\* attempts, which the except of the loop logs before the next pass
loop_reconnect(connected) ==
    /\ server_thread = "body"
    /\ ~serial_is_open
    /\ serial_is_open' = connected
    /\ server_thread' = "while"
    /\ op' = IF connected THEN "reconnected" ELSE "reconnect_failed"
    /\ request' = <<>>
    /\ sent' = <<>>
    /\ UNCHANGED <<config, executor_shutdown, old_threads, connect_call, is_running, slaves, stats, in_waiting, pool, nops>>

\* the port is open: read and process what is waiting, sleep, next pass
loop_pass(arrived) ==
    /\ server_thread = "body"
    /\ serial_is_open
    /\ server_thread' = "while"
    /\ IF in_waiting \o arrived = <<>>
       THEN /\ op' = "nothing_waiting"
            /\ request' = <<>>
            /\ sent' = <<>>
            /\ UNCHANGED <<config, executor_shutdown, old_threads, connect_call, is_running,
                           slaves, stats, serial_is_open, in_waiting, pool, nops>>
       ELSE read_and_process(arrived) /\ UNCHANGED old_threads

\* stop_server on a running server: the flag, then the port, then
\* self.executor.shutdown(wait=True); the executor has no task to wait for
\* and the join only waits, for 5 seconds at most
stop_server ==
    /\ is_running
    /\ is_running' = FALSE
    /\ serial_is_open' = FALSE
    /\ in_waiting' = <<>>
    /\ op' = "stop_server"
    /\ request' = <<>>
    /\ sent' = <<>>
    /\ executor_shutdown' = TRUE
    /\ UNCHANGED <<config, old_threads, connect_call, server_thread, slaves, stats, pool, nops>>

\* the connection is lost under a running server: the port is no longer
\* open, which is what the loop tests, and what waited in it is gone
port_lost ==
    /\ is_running
    /\ serial_is_open
    /\ serial_is_open' = FALSE
    /\ in_waiting' = <<>>
    /\ op' = "port_lost"
    /\ request' = <<>>
    /\ sent' = <<>>
    /\ UNCHANGED <<config, executor_shutdown, old_threads, connect_call, is_running, server_thread, slaves, stats, pool, nops>>

(***************************************************************************)
(* start_server, and the server threads of earlier starts.  stop_server    *)
(* joins the server thread for 5 seconds at most and start_server does not *)
(* look at the old thread: it stores a new Thread in self.server_thread.   *)
(* A thread that has not left the loop by then goes on running             *)
(* _server_loop on the same object; old_threads says where each of them is.*)
(***************************************************************************)
\* max_retries = 5
max_retries == 5

\* how many attempts to open the device may fail in a row
MaxFailing == 6

\* a loop that sleeps and tries once more after the last attempt failed
RECURSIVE connect_attempt_one_more(_, _)
connect_attempt_one_more(attempt, failing) ==
    IF attempt >= failing
    THEN ConnectCall(failing, attempt + 1, FALSE)
    ELSE IF attempt < max_retries
    THEN connect_attempt_one_more(attempt + 1, failing)
    ELSE ConnectCall(failing, attempt + 1, TRUE)

RECURSIVE connect_attempt(_, _)
\* `for attempt in range(max_retries)`: serial.Serial(...) succeeds once the
\* device is there, which returns; a failed attempt sleeps and goes on, the
\* last one raises
connect_attempt(attempt, failing) ==
    IF attempt >= failing
    THEN ConnectCall(failing, attempt + 1, FALSE)
    ELSE IF attempt < max_retries - 1
    THEN connect_attempt(attempt + 1, failing)
    ELSE ConnectCall(failing, attempt + 1, TRUE)

_connect_serial(failing) == connect_attempt(0, failing)

\* the threads still alive once self.server_thread is replaced
replaced_threads ==
    IF server_thread = "exited" THEN old_threads ELSE Append(old_threads, server_thread)

\* stop_server has returned: its join(timeout=5) ended because the server
\* thread left the loop, or timed out with the thread inside _connect_serial,
\* whose four sleeps of 2 seconds between attempts outlast it
stop_server_returned ==
    server_thread = "exited" \/ (server_thread = "body" /\ ~serial_is_open)

\* start_server while the device fails to open `failing` times in a row; on a
\* stopped server it is called after stop_server has returned
start_server(failing) ==
    /\ nops < MaxOps
    /\ is_running \/ stop_server_returned
    /\ nops' = nops + 1
    /\ request' = <<>>
    /\ sent' = <<>>
    /\ IF is_running
       THEN /\ op' = "start_server_already_running"
            /\ UNCHANGED <<is_running, server_thread, old_threads, connect_call,
                           serial_is_open, in_waiting>>
       ELSE LET call == _connect_serial(failing)
            IN  /\ connect_call' = call
                /\ IF call.raised
                   THEN /\ op' = "start_server_raised"
                        /\ is_running' = FALSE
                        /\ UNCHANGED <<server_thread, old_threads, serial_is_open,
                                       in_waiting>>
                   ELSE /\ op' = "start_server"
                        /\ serial_is_open' = TRUE
                        /\ in_waiting' = <<>>
                        /\ is_running' = TRUE
                        /\ server_thread' = "while"
                        /\ old_threads' = replaced_threads
    /\ UNCHANGED <<config, executor_shutdown, slaves, stats, pool>>

\* old_threads once thread k of it is at pc, or has left the loop
old_thread_at(k, pc) ==
    IF pc = "exited"
    THEN SubSeq(old_threads, 1, k - 1) \o SubSeq(old_threads, k + 1, Len(old_threads))
    ELSE [old_threads EXCEPT ![k] = pc]

\* while self.is_running: in a thread of an earlier start
old_loop_condition(k) ==
    /\ old_threads[k] = "while"
    /\ old_threads' = old_thread_at(k, IF is_running THEN "body" ELSE "exited")
    /\ op' = "old_loop_condition"
    /\ request' = <<>>
    /\ sent' = <<>>
    /\ UNCHANGED <<config, executor_shutdown, connect_call, is_running, server_thread,
                   slaves, stats, serial_is_open, in_waiting, pool, nops>>

\* the port is not open: self._connect_serial(); continue
old_loop_reconnect(k, connected) ==
    /\ old_threads[k] = "body"
    /\ ~serial_is_open
    /\ serial_is_open' = connected
    /\ old_threads' = old_thread_at(k, "while")
    /\ op' = IF connected THEN "old_reconnected" ELSE "old_reconnect_failed"
    /\ request' = <<>>
    /\ sent' = <<>>
    /\ UNCHANGED <<config, executor_shutdown, connect_call, is_running, server_thread,
                   slaves, stats, in_waiting, pool, nops>>

\* the port is open: read what is waiting, sleep, next pass
old_loop_pass(k, arrived) ==
    /\ old_threads[k] = "body"
    /\ serial_is_open
    /\ old_threads' = old_thread_at(k, "while")
    /\ IF in_waiting \o arrived = <<>>
       THEN /\ op' = "old_nothing_waiting"
            /\ request' = <<>>
            /\ sent' = <<>>
            /\ UNCHANGED <<config, executor_shutdown, connect_call, is_running,
                           slaves, stats, serial_is_open, in_waiting, pool, nops>>
       ELSE read_and_process(arrived)
    /\ UNCHANGED server_thread

(***************************************************************************)
(* The worker pool.  _server_loop hands each frame it read to              *)
(* self.executor.submit(self._process_request, request_data) and goes on   *)
(* reading without waiting for the task; the executor is a                 *)
(* ThreadPoolExecutor(max_workers=max_threads), so up to max_threads tasks *)
(* run at once.  The server takes no lock anywhere: the stores, the        *)
(* counters and the port are shared by the running tasks as they are.      *)
(*                                                                         *)
(* A task is followed through the points of _process_request at which      *)
(* another thread can run in between:                                      *)
(*   "queued"      submitted, _process_request not yet entered             *)
(*   "read_loop"   inside the for loop of _handle_read_holding_registers   *)
(*   "write_loop"  inside the for loop of _handle_write_multiple_registers *)
(*   "send"        holds the frame it is about to write to the port        *)
(*   "in_write"    inside self.serial_port.write(response)                 *)
(*   "count"       back in _process_request, before the outcome counters   *)
(* The other handlers, and the counter updates, are taken in one step      *)
(* each.  A finished task leaves the pool.                                 *)
(* The request counters are also followed one bytecode at a time: `+=` on  *)
(* an attribute loads it, adds, and stores the sum, and another thread can *)
(* run between the load and the store.  `loaded` is the value the thread   *)
(* holds in between:                                                       *)
(*   "total_loaded"  holds total_requests, before the store                *)
(*   "total_stored"  total_requests and last_request_time are stored       *)
(*   "bytes_loaded"  holds bytes_received, in len(request_data)            *)
(***************************************************************************)
\* PI_ZERO_CONFIG['max_threads']
max_threads == 4

Task(request_data, pc, i, response, wire, outcome) ==
    [request_data |-> request_data, pc |-> pc, i |-> i, response |-> response,
     wire |-> wire, outcome |-> outcome, loaded |-> 0]

\* the task executor.submit creates
submitted(request_data) == Task(request_data, "queued", 0, None, <<>>, "none")

\* the pool once task t has returned
returned(t) == SubSeq(pool, 1, t - 1) \o SubSeq(pool, t + 1, Len(pool))

\* the tasks a thread of the executor is running
running == {t \in DOMAIN pool : pool[t].pc # "queued"}

\* the tasks in the executor's work queue, which its idle threads take in the
\* order of submission
queued == {t \in DOMAIN pool : pool[t].pc = "queued"}

\* the task goes on to send its frame, or straight to the counters when it
\* has nothing to write
to_port(request_data, response, wire, outcome) ==
    Task(request_data, IF wire = <<>> THEN "count" ELSE "send", 0, response, wire, outcome)

\* one pass of the server loop that submits the frame it read
_server_loop_submit(arrived) ==
    /\ is_running
    /\ server_thread = "while"
    /\ serial_is_open
    /\ Len(in_waiting \o arrived) > 0
    /\ nops' = nops + 1
    /\ LET buffer == in_waiting \o arrived
           got == _read_request(buffer)
       IN  /\ in_waiting' = SubSeq(buffer, got.consumed + 1, Len(buffer))
           /\ request' = got.request_data
           /\ sent' = <<>>
           /\ IF got.request_data = None
              THEN /\ op' = "read_abandoned"
                   /\ UNCHANGED pool
              ELSE IF executor_shutdown
              THEN /\ op' = "submit_raised"
                   /\ UNCHANGED pool
              ELSE /\ op' = "submit"
                   /\ pool' = Append(pool, submitted(got.request_data))
    /\ UNCHANGED <<config, executor_shutdown, old_threads, connect_call, is_running, server_thread, slaves, stats, serial_is_open>>

\* an idle thread of the executor takes the tasks of the work queue in the
\* order of submission
thread_takes(t) ==
    /\ pool[t].pc = "queued"
    /\ Cardinality({u \in queued : u < t}) < max_threads - Cardinality(running)

\* _process_request after the request counters: the unknown-slave and CRC
\* checks, and the handler up to its loop
handle_request(t) ==
    LET request_data == pool[t].request_data
        slave_id == At(request_data, 0)
        function_code == At(request_data, 1)
        quantity == Word(At(request_data, 4), At(request_data, 5))
        handled == dispatch(function_code, slave_id, request_data)
    IN  IF unknown_slave(slave_id)
        THEN /\ pool' = [pool EXCEPT ![t] =
                     to_port(request_data, None,
                             _send_exception_response(slave_id, function_code, 11),
                             "none")]
             /\ UNCHANGED slaves
        ELSE IF ~_validate_crc(request_data)
        THEN /\ pool' = returned(t)
             /\ UNCHANGED slaves
        ELSE IF function_code \notin SupportedFunctionCodes
        THEN /\ pool' = [pool EXCEPT ![t] =
                     to_port(request_data, None,
                             _send_exception_response(slave_id, function_code, 1),
                             "none")]
             /\ UNCHANGED slaves
        ELSE IF /\ function_code = 3
                /\ Len(request_data) >= 8
                /\ ~read_registers_quantity_illegal(quantity)
        THEN /\ pool' = [pool EXCEPT ![t] =
                     Task(request_data, "read_loop", 0,
                          <<slave_id, 3, quantity * 2>>, <<>>, "none")]
             /\ UNCHANGED slaves
        ELSE IF /\ function_code = 16
                /\ Len(request_data) >= 9
                /\ ~write_registers_request_illegal(quantity, At(request_data, 6))
        THEN /\ pool' = [pool EXCEPT ![t] =
                     Task(request_data, "write_loop", 0, None, <<>>, "none")]
             /\ UNCHANGED slaves
        ELSE /\ slaves' = [slaves EXCEPT ![slave_id] = handled.slave]
             /\ pool' = [pool EXCEPT ![t] =
                     IF handled.response # None
                     THEN to_port(request_data, handled.response,
                                  _send_response(handled.response), "successful")
                     ELSE to_port(request_data, None, handled.wire, "failed")]

\* a thread of the executor took the task from the work queue and enters
\* _process_request: the request counters,
\* the unknown-slave and CRC checks, and the handler up to its loop
worker_begin(t) ==
    /\ thread_takes(t)
    /\ LET request_data == pool[t].request_data
           slave_id == At(request_data, 0)
       IN  IF Len(request_data) < 4
           THEN /\ pool' = returned(t)
                /\ UNCHANGED <<slaves, stats>>
           ELSE /\ stats' = count_request(slave_id, request_data)
                /\ handle_request(t)
    /\ op' = "worker_begin"
    /\ request' = pool[t].request_data
    /\ sent' = <<>>
    /\ UNCHANGED <<config, executor_shutdown, old_threads, connect_call, is_running, server_thread, serial_is_open, in_waiting, nops>>

\* the thread entered _process_request, found the record with
\* `if slave_id in self.stats:` and loaded total_requests for the `+= 1`
worker_load_total(t) ==
    /\ thread_takes(t)
    /\ Len(pool[t].request_data) >= 4
    /\ At(pool[t].request_data, 0) \in DOMAIN stats
    /\ pool' = [pool EXCEPT ![t].pc = "total_loaded",
                            ![t].loaded = stats[At(pool[t].request_data, 0)].total_requests]
    /\ op' = "worker_load_total"
    /\ request' = pool[t].request_data
    /\ sent' = <<>>
    /\ UNCHANGED <<config, executor_shutdown, old_threads, connect_call, is_running,
                   server_thread, slaves, stats, serial_is_open, in_waiting, nops>>

\* it stores the sum: self.stats[slave_id].total_requests = loaded + 1
worker_store_total(t) ==
    /\ pool[t].pc = "total_loaded"
    /\ At(pool[t].request_data, 0) \in DOMAIN stats
    /\ stats' = [stats EXCEPT ![At(pool[t].request_data, 0)].total_requests =
                                  pool[t].loaded + 1]
    /\ pool' = [pool EXCEPT ![t].pc = "total_stored", ![t].loaded = 0]
    /\ op' = "worker_store_total"
    /\ request' = pool[t].request_data
    /\ sent' = <<>>
    /\ UNCHANGED <<config, executor_shutdown, old_threads, connect_call, is_running,
                   server_thread, slaves, serial_is_open, in_waiting, nops>>

\* it loaded bytes_received and calls len(request_data)
worker_load_bytes(t) ==
    /\ pool[t].pc = "total_stored"
    /\ At(pool[t].request_data, 0) \in DOMAIN stats
    /\ pool' = [pool EXCEPT ![t].pc = "bytes_loaded",
                            ![t].loaded = stats[At(pool[t].request_data, 0)].bytes_received]
    /\ op' = "worker_load_bytes"
    /\ request' = pool[t].request_data
    /\ sent' = <<>>
    /\ UNCHANGED <<config, executor_shutdown, old_threads, connect_call, is_running,
                   server_thread, slaves, stats, serial_is_open, in_waiting, nops>>

\* it stores the sum, self.stats[slave_id].bytes_received = loaded + len(request_data),
\* and goes on through _process_request
worker_store_bytes(t) ==
    /\ pool[t].pc = "bytes_loaded"
    /\ At(pool[t].request_data, 0) \in DOMAIN stats
    /\ stats' = [stats EXCEPT ![At(pool[t].request_data, 0)].bytes_received =
                                  pool[t].loaded + Len(pool[t].request_data)]
    /\ handle_request(t)
    /\ op' = "worker_store_bytes"
    /\ request' = pool[t].request_data
    /\ sent' = <<>>
    /\ UNCHANGED <<config, executor_shutdown, old_threads, connect_call, is_running,
                   server_thread, serial_is_open, in_waiting, nops>>

\* one pass of `for addr in range(start_address, start_address + quantity)`;
\* the last pass goes on to the CRC and returns the response
worker_read_register(t) ==
    /\ pool[t].pc = "read_loop"
    /\ LET request_data == pool[t].request_data
           slave_id == At(request_data, 0)
           start_address == Word(At(request_data, 2), At(request_data, 3))
           quantity == Word(At(request_data, 4), At(request_data, 5))
           value == stored_or_zero(slaves[slave_id].holding_registers,
                                   start_address + pool[t].i)
           response_data == pool[t].response \o <<Hi(value), Lo(value)>>
           response == response_data \o _calculate_crc(response_data)
       IN  pool' = [pool EXCEPT ![t] =
                IF pool[t].i + 1 < quantity
                THEN Task(request_data, "read_loop", pool[t].i + 1, response_data,
                          <<>>, "none")
                ELSE to_port(request_data, response, _send_response(response),
                             "successful")]
    /\ op' = "worker_read_register"
    /\ request' = pool[t].request_data
    /\ sent' = <<>>
    /\ UNCHANGED <<config, executor_shutdown, old_threads, connect_call, is_running, server_thread, slaves, stats, serial_is_open, in_waiting, nops>>

\* one pass of `for i in range(quantity)`: an IndexError on register_data
\* leaves the loop for the except branch, the last pass returns the response
worker_write_register(t) ==
    /\ pool[t].pc = "write_loop"
    /\ LET request_data == pool[t].request_data
           slave_id == At(request_data, 0)
           start_address == Word(At(request_data, 2), At(request_data, 3))
           quantity == Word(At(request_data, 4), At(request_data, 5))
           register_data == Slice(request_data, 7, 7 + At(request_data, 6))
           i == pool[t].i
           response_bytes == <<slave_id, 16>> \o Slice(request_data, 2, 6)
           response == response_bytes \o _calculate_crc(response_bytes)
       IN  IF i * 2 + 1 >= Len(register_data)
           THEN /\ pool' = [pool EXCEPT ![t] =
                        to_port(request_data, None,
                                _send_exception_response(slave_id, 16, 4), "failed")]
                /\ UNCHANGED slaves
           ELSE /\ slaves' = [slaves EXCEPT ![slave_id].holding_registers =
                        Put(@, start_address + i,
                            stored_register_value(
                                Word(At(register_data, i * 2), At(register_data, i * 2 + 1))))]
                /\ pool' = [pool EXCEPT ![t] =
                        IF i + 1 < quantity
                        THEN Task(request_data, "write_loop", i + 1, None, <<>>, "none")
                        ELSE to_port(request_data, response, _send_response(response),
                                     "successful")]
    /\ op' = "worker_write_register"
    /\ request' = pool[t].request_data
    /\ sent' = <<>>
    /\ UNCHANGED <<config, executor_shutdown, old_threads, connect_call, is_running, server_thread, stats, serial_is_open, in_waiting, nops>>

\* _send_response finds the port open and calls self.serial_port.write(response)
worker_enter_write(t) ==
    /\ pool[t].pc = "send"
    /\ serial_is_open
    /\ pool' = [pool EXCEPT ![t].pc = "in_write"]
    /\ op' = "worker_enter_write"
    /\ request' = pool[t].request_data
    /\ sent' = <<>>
    /\ UNCHANGED <<config, executor_shutdown, old_threads, connect_call, is_running, server_thread, slaves, stats, serial_is_open, in_waiting, nops>>

\* _send_response finds the port closed and returns without writing: the task
\* goes on with the response its handler returned, and with no frame written
worker_skip_write(t) ==
    /\ pool[t].pc = "send"
    /\ ~serial_is_open
    /\ pool' = [pool EXCEPT ![t].pc = "count", ![t].wire = <<>>]
    /\ op' = "worker_skip_write"
    /\ request' = pool[t].request_data
    /\ sent' = <<>>
    /\ UNCHANGED <<config, executor_shutdown, old_threads, connect_call, is_running, server_thread, slaves, stats, serial_is_open, in_waiting, nops>>

\* self.serial_port.write(response) and flush() return
worker_leave_write(t) ==
    /\ pool[t].pc = "in_write"
    /\ pool' = [pool EXCEPT ![t].pc = "count"]
    /\ op' = "worker_leave_write"
    /\ request' = pool[t].request_data
    /\ sent' = pool[t].wire
    /\ UNCHANGED <<config, executor_shutdown, old_threads, connect_call, is_running, server_thread, slaves, stats, serial_is_open, in_waiting, nops>>

\* the outcome counters at the end of _process_request, and its return
worker_count(t) ==
    /\ pool[t].pc = "count"
    /\ LET slave_id == At(pool[t].request_data, 0)
       IN  stats' =
               IF pool[t].outcome = "successful" /\ slave_id \in DOMAIN stats
               THEN [stats EXCEPT ![slave_id].successful_requests = @ + 1,
                                  ![slave_id].bytes_sent = @ + Len(pool[t].response)]
               ELSE IF pool[t].outcome = "failed"
               THEN count_failed(stats, slave_id)
               ELSE stats
    /\ pool' = returned(t)
    /\ op' = "worker_count"
    /\ request' = pool[t].request_data
    /\ sent' = <<>>
    /\ UNCHANGED <<config, executor_shutdown, old_threads, connect_call, is_running, server_thread, slaves, serial_is_open, in_waiting, nops>>

\* `if slave_id in self.stats:` found the record; the thread has not yet
\* reached the `+= 1` under it
worker_check_stats(t) ==
    /\ pool[t].pc = "count"
    /\ pool[t].outcome \in {"successful", "failed"}
    /\ At(pool[t].request_data, 0) \in DOMAIN stats
    /\ pool' = [pool EXCEPT ![t].pc = "counting"]
    /\ op' = "worker_check_stats"
    /\ request' = pool[t].request_data
    /\ sent' = <<>>
    /\ UNCHANGED <<config, executor_shutdown, old_threads, connect_call, is_running,
                   server_thread, slaves, stats, serial_is_open, in_waiting, nops>>

\* self.stats[slave_id].successful_requests += 1 (or failed_requests): when
\* remove_slave deleted the record in between, the subscript raises KeyError,
\* and the except of _process_request sends exception 0x04
worker_increment(t) ==
    /\ pool[t].pc = "counting"
    /\ LET slave_id == At(pool[t].request_data, 0)
           function_code == At(pool[t].request_data, 1)
       IN  IF slave_id \in DOMAIN stats
           THEN /\ stats' =
                       IF pool[t].outcome = "successful"
                       THEN [stats EXCEPT ![slave_id].successful_requests = @ + 1,
                                          ![slave_id].bytes_sent = @ + Len(pool[t].response)]
                       ELSE count_failed(stats, slave_id)
                /\ op' = "worker_increment"
                /\ sent' = <<>>
           ELSE /\ UNCHANGED stats
                /\ op' = "worker_increment_raised"
                /\ sent' = _send_exception_response(slave_id, function_code, 4)
    /\ pool' = returned(t)
    /\ request' = pool[t].request_data
    /\ UNCHANGED <<config, executor_shutdown, old_threads, connect_call, is_running,
                   server_thread, slaves, serial_is_open, in_waiting, nops>>

(***************************************************************************)
(* The client side of the wire (src/test.py): a request is its bytes       *)
(* followed by the client's CRC of them.                                   *)
(***************************************************************************)
full_request(request_data) == request_data \o calculate_crc(request_data)

\* slave_id, function code, two big-endian 16-bit fields: the layout of 0x01..0x06
request_words(slave_id, function_code, first, second) ==
    full_request(<<slave_id, function_code, Hi(first), Lo(first), Hi(second), Lo(second)>>)

\* 0x0F and 0x10: address, quantity, byte count, data
request_write_multiple(slave_id, function_code, start_address, quantity, byte_count, data) ==
    full_request(<<slave_id, function_code, Hi(start_address), Lo(start_address),
                   Hi(quantity), Lo(quantity), byte_count>> \o data)

\* 0x14 as the frame reader assembles it: the byte count, then byte_count bytes
request_file_record(slave_id, byte_count, payload) ==
    full_request(<<slave_id, 20, byte_count>> \o payload)

\* the payload of a standard 0x14 request: reference type, file number, record
\* number, record length
file_record_fields(reference_type, file_number, record_number, record_length) ==
    <<reference_type, Hi(file_number), Lo(file_number), Hi(record_number),
      Lo(record_number), Hi(record_length), Lo(record_length)>>

\* a frame whose CRC bytes are zeroed on the way
crc_damaged(frame) == ButLast2(frame) \o <<0, 0>>

\* n data bytes of one value
Filled(n, byte) == [i \in 1..n |-> byte]

(***************************************************************************)
(* The requests and administrative inputs the specification draws from.    *)
(***************************************************************************)
SlaveConfigs == {create_example_slave, spare_slave}

SlaveIds == {1, 2}

RegisterUpdates == {<<1, "holding", 0, 7>>, <<1, "coil", 0, 1>>, <<2, "input", 5, 9>>,
                    <<1, "discrete", 10002, 1>>, <<1, "bogus", 0, 1>>}

\* the documented maximum quantity of each read function
read_maximum(function_code) == IF function_code \in {1, 2} THEN 2000 ELSE 125

\* reads at and around the quantity limits, at both ends of the address space
BoundaryReads ==
    UNION { { request_words(1, fc, 0, 0),
              request_words(1, fc, 65535, 1),
              request_words(1, fc, 0, read_maximum(fc)),
              request_words(1, fc, 65535, read_maximum(fc)),
              request_words(1, fc, 0, read_maximum(fc) + 1),
              request_words(1, fc, 2014, 65535) } : fc \in {1, 2, 3, 4} }

RegisterRequests ==
    { request_words(1, 6, 0, 16256),
      request_words(1, 6, 65535, 65535),
      request_words(1, 6, 2014, 0),
      request_words(2, 6, 5, 99),
      request_write_multiple(1, 16, 65535, 2, 4, <<18, 52, 171, 205>>),
      request_write_multiple(1, 16, 2014, 3, 6, <<0, 1, 255, 255, 128, 0>>),
      request_words(1, 3, 0, 1),
      request_words(1, 3, 65535, 2),
      request_words(1, 3, 2014, 2),
      request_words(1, 3, 2014, 3),
      request_words(2, 3, 5, 1),
      request_words(1, 4, 3001, 1),
      request_words(2, 4, 5, 1) }

CoilRequests ==
    { request_words(1, 5, 0, 65280),
      request_words(1, 5, 0, 0),
      request_words(1, 5, 1, 0),
      request_words(1, 5, 65535, 65280),
      request_words(1, 5, 0, 1),
      request_words(1, 5, 1, 255),
      request_words(1, 5, 2, 65281),
      request_write_multiple(1, 15, 8, 10, 2, <<205, 253>>),
      request_write_multiple(1, 15, 65535, 2, 1, <<3>>),
      request_write_multiple(1, 15, 0, 4, 1, <<5>>),
      request_words(1, 1, 0, 1),
      request_words(1, 1, 1, 1),
      request_words(1, 1, 8, 10),
      request_words(1, 1, 65535, 2),
      request_words(1, 1, 0, 4),
      request_words(1, 2, 10001, 3) }

\* write-multiple requests that break a constraint, and ones cut short on the wire
IllegalWrites ==
    { request_write_multiple(1, 15, 0, 0, 0, <<>>),
      request_write_multiple(1, 15, 0, 1969, 247, Filled(247, 255)),
      request_write_multiple(1, 15, 0, 10, 1, <<255>>),
      request_write_multiple(1, 15, 1, 8, 2, <<255, 255>>),
      request_write_multiple(1, 16, 0, 0, 0, <<>>),
      request_write_multiple(1, 16, 0, 124, 248, Filled(248, 17)),
      request_write_multiple(1, 16, 2014, 2, 3, <<1, 2, 3>>),
      request_write_multiple(1, 16, 2014, 1, 4, <<1, 2, 3, 4>>),
      request_write_multiple(1, 16, 0, 2, 4, <<18, 52>>),
      request_write_multiple(1, 16, 0, 3, 6, <<18, 52>>),
      request_write_multiple(1, 15, 0, 10, 2, <<>>),
      request_write_multiple(1, 15, 0, 20, 3, <<>>),
      full_request(<<1, 15, 0, 0, 0, 0>>),
      full_request(<<1, 16, 0, 0, 0, 0>>) }

FileRequests ==
    { request_file_record(1, 7, file_record_fields(6, 1, 0, 4)),
      request_file_record(1, 7, file_record_fields(6, 1, 1, 20)),
      request_file_record(1, 7, file_record_fields(6, 1, 2, 0)),
      request_file_record(1, 7, file_record_fields(6, 2, 0, 4)),
      request_file_record(1, 7, file_record_fields(6, 1, 9, 4)),
      request_file_record(1, 7, file_record_fields(6, 1, 9, 0)),
      request_file_record(1, 7, file_record_fields(6, 2, 0, 65535)),
      request_file_record(1, 7, file_record_fields(6, 1, 0, 126)),
      request_file_record(1, 7, file_record_fields(6, 1, 0, 127)),
      request_file_record(1, 7, file_record_fields(6, 1, 1, 65535)),
      request_file_record(1, 7, file_record_fields(7, 1, 0, 4)),
      request_file_record(1, 7, file_record_fields(0, 1, 0, 4)),
      request_file_record(1, 0, <<>>),
      request_file_record(1, 4, <<6, 0, 1, 0>>),
      request_file_record(1, 5, <<6, 0, 1, 0, 0>>),
      request_file_record(1, 6, <<6, 0, 1, 0, 0, 0>>),
      request_file_record(1, 8, file_record_fields(6, 1, 0, 4) \o <<0>>),
      request_file_record(1, 255, file_record_fields(6, 1, 0, 4) \o Filled(248, 0)) }

OtherRequests ==
    { request_words(1, 7, 0, 0),
      request_words(1, 43, 14, 1),
      request_words(2, 131, 0, 0),
      crc_damaged(request_words(1, 3, 2014, 2)),
      crc_damaged(request_words(2, 3, 5, 1)),
      crc_damaged(request_words(1, 6, 0, 7)),
      crc_damaged(request_words(1, 7, 0, 0)),
      SubSeq(request_words(1, 3, 2014, 2), 1, 5),
      <<1, 15, 0, 0, 0, 0>> }

\* one request or more for each handler and for each exception code
Requests ==
    { request_words(1, 3, 2014, 2),
      request_words(2, 3, 5, 1),
      request_words(1, 4, 3001, 1),
      request_words(1, 1, 0, 10),
      request_words(1, 2, 10001, 3),
      request_words(1, 5, 0, 65280),
      request_words(1, 6, 0, 16256),
      request_write_multiple(1, 15, 8, 10, 2, <<205, 253>>),
      request_write_multiple(1, 16, 65535, 2, 4, <<18, 52, 171, 205>>),
      request_file_record(1, 7, file_record_fields(6, 1, 0, 4)),
      request_file_record(1, 7, file_record_fields(6, 2, 0, 4)),
      request_words(1, 3, 0, 0),
      request_words(1, 5, 0, 1),
      request_write_multiple(1, 16, 0, 3, 6, <<18, 52>>),
      request_file_record(1, 0, <<>>) }
    \cup OtherRequests

Administer ==
    \/ \E slave_config \in SlaveConfigs : add_slave(slave_config)
    \/ \E slave_id \in SlaveIds : remove_slave(slave_id)
    \/ \E u \in RegisterUpdates : update_register(u[1], u[2], u[3], u[4])

\* the server as constructed with max_slaves read from the configuration file,
\* then started: no slave yet, the port open, nothing waiting in it
InitWith(configured_max_slaves) ==
    /\ config = [max_slaves |-> configured_max_slaves]
    /\ slaves = <<>>
    /\ stats = <<>>
    /\ serial_is_open = TRUE
    /\ in_waiting = <<>>
    /\ pool = <<>>
    /\ is_running = TRUE
    /\ server_thread = "while"
    /\ executor_shutdown = FALSE
    /\ old_threads = <<>>
    /\ connect_call = ConnectCall(0, 1, FALSE)
    /\ op = "init"
    /\ request = <<>>
    /\ sent = <<>>
    /\ nops = 0

\* the default configuration
Init == InitWith(max_slaves)

\* a client sends one of the given frames on a quiet line, or sends nothing
\* while bytes of an earlier frame are still waiting in the port
Serve(frames) ==
    \E arrived \in frames \cup {<<>>} :
        /\ (arrived = <<>>) = (in_waiting # <<>>)
        /\ _server_loop(arrived)

Next == Serve(Requests) \/ Administer

Spec == Init /\ [][Next]_vars

NextReads == Serve(BoundaryReads) \/ Administer

SpecReads == Init /\ [][NextReads]_vars

NextRegisters == Serve(RegisterRequests) \/ Administer

SpecRegisters == Init /\ [][NextRegisters]_vars

NextCoils == Serve(CoilRequests) \/ Administer

SpecCoils == Init /\ [][NextCoils]_vars

NextWrites == Serve(IllegalWrites) \/ Administer

SpecWrites == Init /\ [][NextWrites]_vars

NextFile == Serve(FileRequests) \/ Administer

SpecFile == Init /\ [][NextFile]_vars

(***************************************************************************)
(* Managing the slaves under a configured ceiling that three slaves can    *)
(* reach, with a few requests in between so that counters and stores move. *)
(***************************************************************************)
third_slave == [spare_slave EXCEPT !.slave_id = 3, !.name = "Third"]

\* values of max_slaves in the configuration file
Ceilings == {1, 2, max_slaves}

AdminRequests ==
    { request_words(1, 3, 2014, 2),
      request_words(2, 6, 5, 99),
      request_words(3, 5, 0, 65280) }

AdministerAll ==
    \/ \E slave_config \in SlaveConfigs \cup {third_slave} : add_slave(slave_config)
    \/ \E slave_id \in SlaveIds \cup {3} : remove_slave(slave_id)
    \/ \E u \in RegisterUpdates : update_register(u[1], u[2], u[3], u[4])

InitAdmin == \E configured_max_slaves \in Ceilings : InitWith(configured_max_slaves)

NextAdmin == Serve(AdminRequests) \/ AdministerAll

SpecAdmin == InitAdmin /\ [][NextAdmin]_vars

(***************************************************************************)
(* The CRC check on its own: a byte sequence is drawn, framed with the     *)
(* server's CRC as every response is, possibly with one bit changed on the *)
(* way, and _validate_crc gives its verdict on it.                         *)
(***************************************************************************)
\* longest data drawn, in bytes
MaxCrcLen == 3

CrcBytes == {0, 1, 255}

CrcData == UNION { [1..n -> CrcBytes] : n \in 0..MaxCrcLen }

\* response_bytes + crc
framed(data) == data \o _calculate_crc(data)

\* bit k of the frame (bit k % 8 of byte k // 8) inverted on the line
bit_changed(frame, k) ==
    [frame EXCEPT ![k \div 8 + 1] = XorByte[@][Shl1(k % 8)]]

CrcFrames ==
    CrcData
    \cup { framed(data) : data \in CrcData }
    \cup UNION { { bit_changed(framed(data), k) : k \in 0..(8 * (Len(data) + 2) - 1) } :
                 data \in CrcData }

\* _validate_crc(data) on the frame drawn
check_crc ==
    /\ op = "init"
    /\ op' = IF _validate_crc(request) THEN "crc_valid" ELSE "crc_invalid"
    /\ nops' = nops + 1
    /\ UNCHANGED <<config, executor_shutdown, old_threads, connect_call, is_running, server_thread, slaves, stats, serial_is_open,
                   in_waiting, pool, request, sent>>

InitCrc ==
    /\ \E frame \in CrcFrames : request = frame
    /\ config = [max_slaves |-> max_slaves]
    /\ slaves = <<>>
    /\ stats = <<>>
    /\ serial_is_open = TRUE
    /\ in_waiting = <<>>
    /\ pool = <<>>
    /\ is_running = TRUE
    /\ server_thread = "while"
    /\ executor_shutdown = FALSE
    /\ old_threads = <<>>
    /\ connect_call = ConnectCall(0, 1, FALSE)
    /\ op = "init"
    /\ sent = <<>>
    /\ nops = 0

SpecCrc == InitCrc /\ [][check_crc]_vars

(***************************************************************************)
(* The documented example of a register read: a slave 1 whose only holding *)
(* register is 2014 = 0x3F80, asked for registers 2014 and 2015.           *)
(***************************************************************************)
documented_slave ==
    [spare_slave EXCEPT !.slave_id = 1,
                        !.name = "Documented",
                        !.holding_registers = (2014 :> 16256),
                        !.input_registers = (3001 :> 25) @@ (3003 :> 65535)]

\* the request as the documentation prints it, CRC bytes included
documented_request == <<1, 3, 7, 222, 0, 2, 36, 10>>

DocumentedRequests ==
    { documented_request,
      request_words(1, 3, 2014, 2),
      request_words(1, 3, 2013, 3),
      request_words(1, 4, 3001, 3),
      request_words(1, 4, 65535, 2),
      request_words(1, 3, 0, 125),
      request_words(1, 6, 2015, 4660) }

NextDocumented ==
    \/ Serve(DocumentedRequests)
    \/ \E slave_config \in {documented_slave, create_example_slave} : add_slave(slave_config)

SpecDocumented == Init /\ [][NextDocumented]_vars
(***************************************************************************)
(* Frames sent back to back: the bytes of one or two frames are in the     *)
(* port before the loop looks at in_waiting, and each pass of the loop     *)
(* takes what _read_request reads and leaves the rest waiting.             *)
(***************************************************************************)
StreamFrames ==
    { request_words(1, 3, 2014, 2),
      request_words(1, 6, 0, 16256),
      request_write_multiple(1, 15, 8, 10, 2, <<205, 253>>),
      request_write_multiple(1, 16, 65535, 2, 4, <<18, 52, 171, 205>>),
      request_write_multiple(1, 16, 0, 3, 6, <<18, 52>>),
      request_file_record(1, 7, file_record_fields(6, 1, 0, 4)),
      request_file_record(1, 0, <<>>) }

\* one frame, two frames back to back, a frame cut short, or bytes that start
\* with a function code the reader has no layout for
Streams ==
    StreamFrames
    \cup { first \o second : first \in StreamFrames, second \in StreamFrames }
    \cup { SubSeq(request_write_multiple(1, 16, 65535, 2, 4, <<18, 52, 171, 205>>), 1, 10),
           SubSeq(request_file_record(1, 7, file_record_fields(6, 1, 0, 4)), 1, 2) }
    \cup { unsupported \o following :
               unsupported \in { request_words(1, 7, 0, 0),
                                 request_words(1, 43, 14, 1),
                                 request_words(2, 131, 0, 0),
                                 <<1, 43>> },
               following \in {<<>>, request_words(1, 3, 2014, 2)} }

\* bytes reach the port of a quiet line; the loop has not looked yet
bytes_arrive(stream) ==
    /\ nops < MaxOps
    /\ is_running
    /\ serial_is_open
    /\ in_waiting = <<>>
    /\ in_waiting' = stream
    /\ op' = "bytes_arrive"
    /\ request' = <<>>
    /\ sent' = <<>>
    /\ UNCHANGED <<config, executor_shutdown, old_threads, connect_call, slaves, stats, serial_is_open, pool, is_running,
                   server_thread, nops>>

NextStream ==
    \/ \E stream \in Streams : bytes_arrive(stream)
    \/ _server_loop(<<>>)
    \/ add_slave(create_example_slave)

SpecStream == Init /\ [][NextStream]_vars

(***************************************************************************)
(* Administrative updates followed by reads of the same addresses on the   *)
(* wire.                                                                   *)
(***************************************************************************)
\* slave_id, register_type, address, value
UpdateCalls ==
    { <<1, "holding", 2014, 7>>,
      <<1, "holding", 40, 65535>>,
      <<1, "input", 3001, 9>>,
      <<1, "coil", 0, 1>>,
      <<1, "coil", 1, 0>>,
      <<1, "discrete", 10002, 1>>,
      <<2, "input", 5, 9>>,
      <<1, "bogus", 2014, 1>>,
      <<3, "holding", 0, 1>> }

UpdateReads ==
    { request_words(1, 3, 2014, 1),
      request_words(1, 3, 40, 1),
      request_words(1, 4, 3001, 1),
      request_words(2, 4, 5, 1),
      request_words(1, 1, 0, 2),
      request_words(1, 2, 10002, 1) }

NextUpdate ==
    \/ Serve(UpdateReads)
    \/ \E slave_config \in SlaveConfigs : add_slave(slave_config)
    \/ \E u \in UpdateCalls : update_register(u[1], u[2], u[3], u[4])

SpecUpdate == Init /\ [][NextUpdate]_vars

(***************************************************************************)
(* Slaves registered under any identifier a caller passes: SlaveConfig is  *)
(* a plain dataclass and add_slave looks only at the number of slaves.     *)
(***************************************************************************)
broadcast_slave == [spare_slave EXCEPT !.slave_id = 0, !.name = "Broadcast"]

beyond_slave == [spare_slave EXCEPT !.slave_id = 248, !.name = "Beyond"]

IdentifierConfigs == {create_example_slave, broadcast_slave, beyond_slave}

IdentifierRequests ==
    { request_words(0, 6, 5, 99),
      request_words(0, 3, 5, 1),
      request_words(248, 6, 5, 99),
      request_words(248, 5, 0, 65280),
      request_words(1, 3, 2014, 2) }

NextIdentifiers ==
    \/ Serve(IdentifierRequests)
    \/ \E slave_config \in IdentifierConfigs : add_slave(slave_config)
    \/ \E slave_id \in {0, 1, 248} : remove_slave(slave_id)

SpecIdentifiers == Init /\ [][NextIdentifiers]_vars

(***************************************************************************)
(* The server with its worker pool: the loop submits the frames it reads   *)
(* and the threads of the executor run them step by step, in any order.    *)
(* A slave is added only while no task is in the pool, as main() does      *)
(* before it starts the server.                                            *)
(***************************************************************************)
\* the values the write below stores at 2014 and 2015
PoolWritten == <<4660, 22136>>

\* a read of two holding registers, a write of the same two, a refused read
PoolRequests ==
    { request_words(1, 3, 2014, 2),
      request_write_multiple(1, 16, 2014, 2, 4,
                             <<Hi(PoolWritten[1]), Lo(PoolWritten[1]),
                               Hi(PoolWritten[2]), Lo(PoolWritten[2])>>),
      request_words(1, 3, 2014, 0) }

Submit == nops < MaxOps /\ \E arrived \in PoolRequests : _server_loop_submit(arrived)

Work ==
    \/ \E t \in DOMAIN pool : worker_begin(t)
    \/ \E t \in DOMAIN pool : worker_read_register(t)
    \/ \E t \in DOMAIN pool : worker_write_register(t)
    \/ \E t \in DOMAIN pool : worker_enter_write(t)
    \/ \E t \in DOMAIN pool : worker_leave_write(t)
    \/ \E t \in DOMAIN pool : worker_count(t)

AddWhileIdle == pool = <<>> /\ add_slave(create_example_slave)

NextPool == Submit \/ Work \/ AddWhileIdle

SpecPool == Init /\ [][NextPool]_vars

(***************************************************************************)
(* The worker pool while the connection can be lost: a task that was       *)
(* submitted while the port was open may reach _send_response after it     *)
(* was closed.                                                             *)
(***************************************************************************)
SkipWrite == \E t \in DOMAIN pool : worker_skip_write(t)

NextPoolPort == NextPool \/ SkipWrite \/ port_lost

SpecPoolPort == Init /\ [][NextPoolPort]_vars

(***************************************************************************)
(* The server while the line does not drain: serial_port.write has no      *)
(* write timeout, so the threads of the executor stay inside it, and the   *)
(* loop goes on submitting the frames it reads.  executor.submit appends   *)
(* to the executor's own work queue, which has no capacity;                *)
(* self.request_queue = queue.Queue(maxsize=100) is never put to or read.  *)
(***************************************************************************)
\* queue.Queue(maxsize=100)
request_queue_maxsize == 100

\* frames read while the line does not drain
MaxBacklog == 105

BacklogRequests == { request_words(1, 3, 2014, 2) }

SubmitMore == nops < MaxBacklog /\ \E arrived \in BacklogRequests : _server_loop_submit(arrived)

BeginQueued == \E t \in DOMAIN pool : worker_begin(t)

EnterWrite == \E t \in DOMAIN pool : worker_enter_write(t)

NextBacklog == SubmitMore \/ BeginQueued \/ EnterWrite

SpecBacklog == Init /\ [][NextBacklog]_vars

(***************************************************************************)
(* The worker pool while slaves are removed: remove_slave is called from   *)
(* another thread (the web interface) at any moment, also between a        *)
(* task's test `slave_id in self.stats` and its use of the record.         *)
(***************************************************************************)
\* a register write that is acknowledged, a read that is refused
RemoveRequests ==
    { request_words(1, 6, 0, 7),
      request_words(1, 3, 2014, 0) }

SubmitWhileRemoving ==
    nops < MaxOps /\ \E arrived \in RemoveRequests : _server_loop_submit(arrived)

LeaveWrite == \E t \in DOMAIN pool : worker_leave_write(t)

Count == \E t \in DOMAIN pool : worker_count(t)

CheckStats == \E t \in DOMAIN pool : worker_check_stats(t)

Increment == \E t \in DOMAIN pool : worker_increment(t)

NextPoolRemove ==
    \/ SubmitWhileRemoving
    \/ BeginQueued
    \/ EnterWrite
    \/ LeaveWrite
    \/ Count
    \/ CheckStats
    \/ Increment
    \/ add_slave(create_example_slave)
    \/ remove_slave(1)

SpecPoolRemove == Init /\ [][NextPoolRemove]_vars

(***************************************************************************)
(* The worker pool with the request counters followed load by store: the   *)
(* four threads of the executor update the same ConnectionStats record     *)
(* and no lock is taken around `+=`.  The slave is added first, as main()  *)
(* does before it starts the server, and every request is addressed to it. *)
(***************************************************************************)
\* a register write of 8 bytes and a coil write of 10, both acknowledged
CountRequests ==
    { request_words(1, 6, 0, 7),
      request_write_multiple(1, 15, 0, 1, 1, <<1>>) }

AddFirst == nops = 0 /\ add_slave(create_example_slave)

SubmitCounted ==
    /\ nops < MaxOps
    /\ 1 \in DOMAIN slaves
    /\ \E arrived \in CountRequests : _server_loop_submit(arrived)

LoadTotal == \E t \in DOMAIN pool : worker_load_total(t)

StoreTotal == \E t \in DOMAIN pool : worker_store_total(t)

LoadBytes == \E t \in DOMAIN pool : worker_load_bytes(t)

StoreBytes == \E t \in DOMAIN pool : worker_store_bytes(t)

NextPoolCount ==
    \/ AddFirst
    \/ SubmitCounted
    \/ LoadTotal
    \/ StoreTotal
    \/ LoadBytes
    \/ StoreBytes
    \/ EnterWrite
    \/ LeaveWrite
    \/ Count

SpecPoolCount == Init /\ [][NextPoolCount]_vars

(***************************************************************************)
(* The life of the server thread: the loop step by step, the port lost and *)
(* found again, stop_server at any moment.  The fair specification states  *)
(* that the server thread, once started, keeps being scheduled.            *)
(***************************************************************************)
LifeRequests ==
    { request_words(1, 3, 2014, 2),
      request_words(1, 6, 0, 16256),
      request_words(1, 7, 0, 0) }

LoopBody ==
    \/ \E connected \in BOOLEAN : loop_reconnect(connected)
    \/ \E arrived \in LifeRequests \cup {<<>>} : loop_pass(arrived)

\* a server whose port is never lost, stopped at any moment
NextStop ==
    \/ loop_condition
    \/ LoopBody
    \/ stop_server
    \/ add_slave(create_example_slave)

SpecStop == Init /\ [][NextStop]_vars

NextLife == NextStop \/ port_lost

SpecLife == Init /\ [][NextLife]_vars

SpecLifeFair == SpecLife /\ WF_vars(loop_condition) /\ WF_vars(LoopBody)

(***************************************************************************)
(* A server that is stopped and started again on the same object, as the   *)
(* restart of the diagnostics tool does, while the device may fail to      *)
(* open.                                                                   *)
(***************************************************************************)
OldLoop ==
    \/ \E k \in DOMAIN old_threads : old_loop_condition(k)
    \/ \E k \in DOMAIN old_threads : \E connected \in BOOLEAN :
           old_loop_reconnect(k, connected)
    \/ \E k \in DOMAIN old_threads : \E arrived \in LifeRequests \cup {<<>>} :
           old_loop_pass(k, arrived)

NextRestart ==
    \/ loop_condition
    \/ LoopBody
    \/ OldLoop
    \/ stop_server
    \/ \E failing \in 0..MaxFailing : start_server(failing)
    \/ add_slave(create_example_slave)

SpecRestart == Init /\ [][NextRestart]_vars

\* ---------------------------------------------------------------------------
\* Properties.  Frames are judged with the client's CRC routine
\* (src/test.py), never with the server's own.
\* ---------------------------------------------------------------------------

\* the last operation was one run of _process_request on `request`
Processing == op = "process_request"

\* the next operation is one run of _process_request on request'
RequestStep == op' = "process_request" /\ nops' = nops + 1

SlaveId(frame) == At(frame, 0)

FunctionCode(frame) == At(frame, 1)

\* the two 16-bit fields every fixed-length request carries
FirstWord(frame) == Word(At(frame, 2), At(frame, 3))

SecondWord(frame) == Word(At(frame, 4), At(frame, 5))

\* [slave_id, function_code | 0x80, exception_code, crc_lo, crc_hi]
ExceptionResponse(slave_id, function_code, exception_code) ==
    LET head == <<slave_id,
                  IF function_code >= 128 THEN function_code ELSE function_code + 128,
                  exception_code>>
    IN  head \o calculate_crc(head)

IsNormalResponse(frame, to) ==
    /\ Len(frame) >= 5
    /\ SlaveId(frame) = SlaveId(to)
    /\ FunctionCode(frame) = FunctionCode(to)

\* C1: every frame the server writes to the port (normal response or
\* exception response) ends with the CRC-16 of all the bytes before it, low
\* byte first, as the client computes it.
C1_EveryWrittenFrameEndsWithCrc ==
    \A i \in 1..Len(sent) :
        /\ Len(sent[i]) >= 3
        /\ Last2(sent[i]) = calculate_crc(ButLast2(sent[i]))

\* a write-multiple-registers request was answered with its normal response
C1_NormalResponseWritten ==
    /\ Processing
    /\ Len(request) >= 2
    /\ FunctionCode(request) = 16
    /\ Len(sent) = 1
    /\ IsNormalResponse(sent[1], request)

\* C2 (as specified): a frame whose trailing CRC does not match the
\* recomputed CRC gets no reply at all, whether or not its slave is configured.
C2_NoReplyToCrcInvalidFrame ==
    (Processing /\ ~client_crc_ok(request)) => sent = <<>>

\* C3 (as specified): for every configured slave, at any quiescent point,
\* total_requests = successful_requests + failed_requests.
C3_TotalIsSuccessfulPlusFailed ==
    \A slave_id \in DOMAIN stats :
        stats[slave_id].total_requests =
            stats[slave_id].successful_requests + stats[slave_id].failed_requests

\* the last operation was a CRC-valid request that got its normal response
Acknowledged ==
    /\ Processing
    /\ Len(request) >= 8
    /\ client_crc_ok(request)
    /\ Len(sent) = 1
    /\ IsNormalResponse(sent[1], request)

\* address -> value, as carried by a write request for holding registers
WrittenRegisters(frame) ==
    IF FunctionCode(frame) = 6
    THEN [x \in {FirstWord(frame)} |-> SecondWord(frame)]
    ELSE [x \in FirstWord(frame)..(FirstWord(frame) + SecondWord(frame) - 1) |->
            Word(At(frame, 7 + 2 * (x - FirstWord(frame))),
                 At(frame, 8 + 2 * (x - FirstWord(frame))))]

\* the response to a register read carries `value` for address x
ResponseRegister(frame, response, x) ==
    Word(At(response, 3 + 2 * (x - FirstWord(frame))),
         At(response, 4 + 2 * (x - FirstWord(frame))))

ReadAddresses(frame) == FirstWord(frame)..(FirstWord(frame) + SecondWord(frame) - 1)

\* C4: after a successful write of holding registers (0x06 or 0x10) to a
\* configured slave, a read holding registers request (0x03) that follows it
\* for those addresses returns exactly the written values, in order, as
\* big-endian 16-bit words.
C4_RegisterWriteThenReadReturnsWritten ==
    [][ ( /\ Acknowledged
          /\ FunctionCode(request) \in {6, 16}
          /\ RequestStep
          /\ Len(request') = 8
          /\ client_crc_ok(request')
          /\ FunctionCode(request') = 3
          /\ SlaveId(request') = SlaveId(request)
          /\ ReadAddresses(request') \subseteq DOMAIN WrittenRegisters(request) )
        => ( /\ Len(sent') = 1
             /\ Len(sent'[1]) = 5 + 2 * SecondWord(request')
             /\ SlaveId(sent'[1]) = SlaveId(request')
             /\ FunctionCode(sent'[1]) = 3
             /\ At(sent'[1], 2) = 2 * SecondWord(request')
             /\ \A x \in ReadAddresses(request') :
                    ResponseRegister(request', sent'[1], x) = WrittenRegisters(request)[x] )
      ]_vars

\* registers 0x1234 and 0xABCD, written at 65535 and 65536 by one 0x10
\* request, have been read back by a 0x03 request for the same range
C4_WrittenRegistersReadBack ==
    /\ Processing
    /\ request = request_words(1, 3, 65535, 2)
    /\ Len(sent) = 1
    /\ Len(sent[1]) = 9
    /\ SubSeq(sent[1], 1, 7) = <<1, 3, 4, 18, 52, 171, 205>>

\* bit (address - start) of the packed data of a write-multiple-coils request
WrittenCoilByte(frame, j) ==
    IF FunctionCode(frame) = 5
    THEN IF SecondWord(frame) = 65280 THEN 1 ELSE 0
    ELSE At(frame, 7 + j) % (2 ^ Min(8, SecondWord(frame) - 8 * j))

CoilQuantity(frame) == IF FunctionCode(frame) = 5 THEN 1 ELSE SecondWord(frame)

\* C5: after a successful write of coils (0x05 or 0x0F) to a configured
\* slave, a read coils request (0x01) that follows it for the same start
\* address and quantity returns the written bits, packed least significant
\* bit first, with the unused high bits of the last byte zero.
C5_CoilWriteThenReadReturnsWritten ==
    [][ ( /\ Acknowledged
          /\ FunctionCode(request) \in {5, 15}
          /\ RequestStep
          /\ Len(request') = 8
          /\ client_crc_ok(request')
          /\ FunctionCode(request') = 1
          /\ SlaveId(request') = SlaveId(request)
          /\ FirstWord(request') = FirstWord(request)
          /\ SecondWord(request') = CoilQuantity(request) )
        => LET byte_count == (CoilQuantity(request) + 7) \div 8
           IN  /\ Len(sent') = 1
               /\ Len(sent'[1]) = 5 + byte_count
               /\ SlaveId(sent'[1]) = SlaveId(request')
               /\ FunctionCode(sent'[1]) = 1
               /\ At(sent'[1], 2) = byte_count
               /\ \A j \in 0..(byte_count - 1) :
                      At(sent'[1], 3 + j) = WrittenCoilByte(request, j)
      ]_vars

\* ten coils written from 0xCD 0xFD at address 8 have been read back as
\* 0xCD 0x01
C5_WrittenCoilsReadBack ==
    /\ Processing
    /\ request = request_words(1, 1, 8, 10)
    /\ Len(sent) = 1
    /\ Len(sent[1]) = 7
    /\ SubSeq(sent[1], 1, 5) = <<1, 1, 2, 205, 1>>

\* the last operation was a CRC-valid request addressed to a configured slave
ProcessedForConfiguredSlave ==
    /\ Processing
    /\ Len(request) >= 4
    /\ client_crc_ok(request)
    /\ SlaveId(request) \in DOMAIN slaves

\* C6: a read request (0x01, 0x02, 0x03, 0x04) to a configured slave gets a
\* normal response if and only if its quantity is between 1 and the maximum
\* (2000 for 0x01 and 0x02, 125 for 0x03 and 0x04); any other quantity gets
\* exception code 0x03.
C6_ReadQuantityLimits ==
    ( /\ ProcessedForConfiguredSlave
      /\ Len(request) = 8
      /\ FunctionCode(request) \in 1..4 )
    => LET quantity == SecondWord(request)
           maximum == IF FunctionCode(request) \in {1, 2} THEN 2000 ELSE 125
       IN  /\ Len(sent) = 1
           /\ IF 1 <= quantity /\ quantity <= maximum
              THEN IsNormalResponse(sent[1], request)
              ELSE sent[1] = ExceptionResponse(SlaveId(request), FunctionCode(request), 3)

\* a read of 126 input registers was refused with exception code 0x03
C6_OneOverMaximumRefused ==
    /\ ProcessedForConfiguredSlave
    /\ request = request_words(1, 4, 0, 126)
    /\ sent = << ExceptionResponse(1, 4, 3) >>

\* C7 (as specified): a read file record request (0x14) to a configured slave
\* whose byte_count field is not 7, or whose reference_type is not 6, gets
\* exception code 0x03, for every byte_count in 0..255.
C7_MalformedFileRequestRefused ==
    ( /\ ProcessedForConfiguredSlave
      /\ FunctionCode(request) = 20
      /\ (At(request, 2) # 7 \/ At(request, 3) # 6) )
    => sent = << ExceptionResponse(SlaveId(request), 20, 3) >>

\* the stores of every slave other than slave_id, and every store of slave_id
\* other than its coils, are left as they were
OnlyCoilsOf(slave_id) ==
    /\ DOMAIN slaves' = DOMAIN slaves
    /\ \A other \in DOMAIN slaves :
           IF other = slave_id
           THEN slaves'[other] = [slaves[other] EXCEPT !.coils = slaves'[other].coils]
           ELSE slaves'[other] = slaves[other]

\* C8: a write single coil request (0x05) to a configured slave sets the coil
\* to True exactly when its value is 0xFF00 and to False exactly when its
\* value is 0x0000; any other value gets exception code 0x03 and leaves the
\* coils unchanged.
C8_WriteSingleCoilValues ==
    [][ ( /\ RequestStep
          /\ Len(request') = 8
          /\ client_crc_ok(request')
          /\ FunctionCode(request') = 5
          /\ SlaveId(request') \in DOMAIN slaves )
        => LET slave_id == SlaveId(request')
               address == FirstWord(request')
               value == SecondWord(request')
               before == slaves[slave_id].coils
               after == slaves'[slave_id].coils
           IN  IF value \in {65280, 0}
               THEN /\ OnlyCoilsOf(slave_id)
                    /\ DOMAIN after = DOMAIN before \cup {address}
                    /\ after[address] = (value = 65280)
                    /\ \A k \in DOMAIN before \ {address} : after[k] = before[k]
                    /\ sent' = <<request'>>
               ELSE /\ slaves' = slaves
                    /\ sent' = << ExceptionResponse(slave_id, 5, 3) >>
      ]_vars

\* coil 1 of slave 1 was True, a write of value 0x00FF to it was refused with
\* exception code 0x03, and the coil is still True
C8_OtherValueRefused ==
    /\ ProcessedForConfiguredSlave
    /\ request = request_words(1, 5, 1, 255)
    /\ sent = << ExceptionResponse(1, 5, 3) >>
    /\ 1 \in DOMAIN slaves[1].coils
    /\ slaves[1].coils[1] = TRUE

C10_UnknownSlaveGetsGatewayException ==
    [][ ( /\ RequestStep
          /\ Len(request') >= 4
          /\ client_crc_ok(request')
          /\ SlaveId(request') \notin DOMAIN slaves )
        => ( /\ sent' = << ExceptionResponse(SlaveId(request'), FunctionCode(request'), 11) >>
             /\ slaves' = slaves
             /\ stats' = stats )
      ]_vars

\* with only slave 1 configured, a read addressed to slave 2 was answered
\* with 02 83 0B F0 F7
C10_UnknownSlaveAnswered ==
    /\ Processing
    /\ request = request_words(2, 3, 5, 1)
    /\ DOMAIN slaves = {1}
    /\ DOMAIN stats = {1}
    /\ sent = << <<2, 131, 11, 240, 247>> >>

\* the next operation processes a CRC-valid read file record request with
\* byte_count 7 and reference_type 6, addressed to a configured slave
FileRecordStep ==
    /\ RequestStep
    /\ Len(request') = 12
    /\ client_crc_ok(request')
    /\ FunctionCode(request') = 20
    /\ At(request', 2) = 7
    /\ At(request', 3) = 6
    /\ SlaveId(request') \in DOMAIN slaves

FileNumber(frame) == Word(At(frame, 4), At(frame, 5))

RecordNumber(frame) == Word(At(frame, 6), At(frame, 7))

RecordLength(frame) == Word(At(frame, 8), At(frame, 9))

\* the record that the request names is stored in the slave before the request
RecordStored(frame) ==
    /\ FileNumber(frame) \in DOMAIN slaves[SlaveId(frame)].file_records
    /\ RecordNumber(frame) \in DOMAIN slaves[SlaveId(frame)].file_records[FileNumber(frame)]

\* byte i (from 1) of the stored bytes cut or zero-padded to their new length
NormalizedByte(stored, i) == IF i <= Len(stored) THEN stored[i] ELSE 0

\* C11 (as specified): a valid read file record request for a stored record,
\* with any record_length 0..65535, is answered with exactly 2 * record_length
\* data bytes (the stored bytes truncated or zero-padded), file_response_length
\* = data length + 1, response_data_length = file_response_length + 1, and the
\* stored record is left unchanged.
C11_StoredRecordReadAtAnyLength ==
    [][ (FileRecordStep /\ RecordStored(request'))
        => LET stored == slaves[SlaveId(request')]
                             .file_records[FileNumber(request')][RecordNumber(request')]
               data_length == 2 * RecordLength(request')
           IN  /\ Len(sent') = 1
               /\ Len(sent'[1]) = 5 + data_length + 2
               /\ SubSeq(sent'[1], 1, 2) = <<SlaveId(request'), 20>>
               /\ At(sent'[1], 3) = data_length + 1
               /\ At(sent'[1], 2) = At(sent'[1], 3) + 1
               /\ At(sent'[1], 4) = 6
               /\ \A i \in 1..data_length :
                      At(sent'[1], 4 + i) = NormalizedByte(stored, i)
               /\ slaves' = slaves
      ]_vars

\* C12: a valid read file record request whose file number or record number
\* is not stored is answered with exactly [slave_id, 0x14, 0x02, 0x01, 0x06,
\* crc_lo, crc_hi], whatever record_length it asks for, and counts as
\* successful.
C12_AbsentRecordReadsEmpty ==
    [][ (FileRecordStep /\ ~RecordStored(request'))
        => LET slave_id == SlaveId(request')
               head == <<slave_id, 20, 2, 1, 6>>
           IN  /\ sent' = << head \o calculate_crc(head) >>
               /\ stats'[slave_id].successful_requests =
                      stats[slave_id].successful_requests + 1
               /\ stats'[slave_id].failed_requests = stats[slave_id].failed_requests
               /\ slaves' = slaves
      ]_vars

\* record 0 of file 2, which is not stored, was asked for with record_length
\* 65535 and answered with the empty record
C12_AbsentRecordAnswered ==
    /\ ProcessedForConfiguredSlave
    /\ request = request_file_record(1, 7, file_record_fields(6, 2, 0, 65535))
    /\ Len(sent) = 1
    /\ Len(sent[1]) = 7
    /\ SubSeq(sent[1], 1, 5) = <<1, 20, 2, 1, 6>>
    /\ stats[1].successful_requests >= 1

\* C13: every accepted write single coil (0x05) and write single register
\* (0x06) request is answered with a frame byte-for-byte equal to the request.
C13_SingleWriteEchoesRequest ==
    ( /\ ProcessedForConfiguredSlave
      /\ Len(request) = 8
      /\ FunctionCode(request) \in {5, 6}
      /\ (FunctionCode(request) = 5 => SecondWord(request) \in {0, 65280}) )
    => sent = <<request>>

\* 01 05 00 00 FF 00 8C 3A was answered with the same eight bytes
C13_CoilWriteEchoed ==
    /\ ProcessedForConfiguredSlave
    /\ request = <<1, 5, 0, 0, 255, 0, 140, 58>>
    /\ sent = << <<1, 5, 0, 0, 255, 0, 140, 58>> >>

\* the next operation is a call of add_slave
AddSlaveStep == op' \in {"add_slave", "add_slave_raised"} /\ nops' = nops + 1

\* the tasks that are inside self.serial_port.write
InPortWrite == {t \in DOMAIN pool : pool[t].pc = "in_write"}

\* C14: when several requests are processed concurrently by the worker pool,
\* the bytes of one response frame are never interleaved on the port with the
\* bytes of another: at most one worker is inside the port write at any time.
C14_OneWorkerInsidePortWrite == Cardinality(InPortWrite) <= 1

\* C21: the number of requests read from the port and not yet taken by a
\* worker never exceeds 100: when the work queue is full a newly read frame
\* is blocked or rejected.
C21_QueuedWithinCapacity == Cardinality(queued) <= request_queue_maxsize

\* C22: after stop_server is called on a running server, in every
\* interleaving with the reader loop, the serial port ends up closed and stays
\* closed: the reader does not reopen it.
C22_PortStaysClosedAfterStop == ~is_running => ~serial_is_open

\* C23: if the port is lost during the run loop and every reconnection
\* attempt keeps failing, the server eventually leaves the running state: a
\* lost port leads to the port being open again or to is_running being false.
C23_PersistentPortFailureStopsServer ==
    (is_running /\ ~serial_is_open) ~> (serial_is_open \/ ~is_running)

\* C24: every configured slave has an identifier in 1..247: add_slave never
\* registers identifier 0 (broadcast) or an identifier above 247.
C24_SlaveIdentifiersInRange == \A slave_id \in DOMAIN slaves : slave_id \in 1..247

\* the frame drawn got its verdict
CrcChecked == op \in {"crc_valid", "crc_invalid"}

\* the last two bytes are the CRC of the bytes before them, computed as the
\* client computes it
TrailingCrcMatches(frame) ==
    /\ Len(frame) >= 2
    /\ Last2(frame) = calculate_crc(ButLast2(frame))

\* the frame is a valid frame with exactly one bit changed
OneBitFromValid(frame) ==
    \E k \in 0..(8 * Len(frame) - 1) : TrailingCrcMatches(bit_changed(frame, k))

\* C25 as stated: CRC verification accepts a frame if and only if its last
\* two bytes equal the computed CRC of the bytes before them; for every byte
\* sequence d of any length including the empty one, verify(d ++ crc(d)) is
\* true, and changing any single bit of a valid frame makes verify false.
C25_VerifyIffTrailingCrcMatches ==
    CrcChecked =>
        /\ (op = "crc_valid") <=> TrailingCrcMatches(request)
        /\ (\E data \in CrcData : request = data \o calculate_crc(data)) => op = "crc_valid"
        /\ OneBitFromValid(request) => op = "crc_invalid"

\* C25 as amended: CRC verification accepts a frame if and only if it has at
\* least three bytes and its last two bytes equal the computed CRC of the
\* bytes before them; for every byte sequence d of at least one byte,
\* verify(d ++ crc(d)) is true, and changing any single bit of a valid frame
\* makes verify false.
C25_VerifyIffThreeBytesAndCrcMatches ==
    CrcChecked =>
        /\ (op = "crc_valid") <=> (Len(request) >= 3 /\ TrailingCrcMatches(request))
        /\ (\E data \in CrcData : Len(data) >= 1 /\ request = data \o calculate_crc(data))
              => op = "crc_valid"
        /\ OneBitFromValid(request) => op = "crc_invalid"

\* a three-byte payload with its CRC was accepted
C25_FramedDataAccepted ==
    /\ op = "crc_valid"
    /\ Len(request) = 5
    /\ request = SubSeq(request, 1, 3) \o calculate_crc(SubSeq(request, 1, 3))

ReadFunctionCodes == {1, 2, 3, 4, 20}

\* C26: read requests (0x01, 0x02, 0x03, 0x04, 0x14) never modify any
\* sub-store, and in particular never create a key for an absent address, so
\* two successive identical read requests with no intervening write return
\* identical response frames.
C26_ReadsLeaveStoresUnchanged ==
    [][ ( /\ RequestStep
          /\ Len(request') >= 2
          /\ FunctionCode(request') \in ReadFunctionCodes )
        => /\ slaves' = slaves
           /\ (Processing /\ request = request') => sent' = sent
      ]_vars

\* the spare slave answered the same read of its absent register 5 twice, and
\* the register is still absent
C26_AbsentRegisterReadTwice ==
    /\ Processing
    /\ request = request_words(2, 3, 5, 1)
    /\ sent = << <<2, 3, 2, 0, 0>> \o calculate_crc(<<2, 3, 2, 0, 0>>) >>
    /\ 2 \in DOMAIN stats
    /\ stats[2].successful_requests = 2
    /\ 5 \notin DOMAIN slaves[2].holding_registers

\* the sub-store a bit read addresses
ReadBits(frame) ==
    IF FunctionCode(frame) = 1 THEN slaves[SlaveId(frame)].coils
    ELSE slaves[SlaveId(frame)].discrete_inputs

\* C27: for a valid read coils or read discrete inputs request with start
\* address s and quantity q, the response has byte_count = ceil(q/8) data
\* bytes, bit i of data byte j is 1 exactly when i + 8j < q and the coil/input
\* at address s + 8j + i is present and true, and all bits at positions beyond
\* q in the last byte are 0.
C27_BitReadPacksLowBitFirst ==
    ( /\ Processing
      /\ Len(request) = 8
      /\ client_crc_ok(request)
      /\ FunctionCode(request) \in {1, 2}
      /\ SlaveId(request) \in DOMAIN slaves
      /\ SecondWord(request) \in 1..2000 )
    => LET s == FirstWord(request)
           q == SecondWord(request)
           byte_count == (q + 7) \div 8
           bits == ReadBits(request)
       IN  /\ Len(sent) = 1
           /\ Len(sent[1]) = 3 + byte_count + 2
           /\ SlaveId(sent[1]) = SlaveId(request)
           /\ FunctionCode(sent[1]) = FunctionCode(request)
           /\ At(sent[1], 2) = byte_count
           /\ \A j \in 0..(byte_count - 1) : \A i \in 0..7 :
                  BitSet(At(sent[1], 3 + j), i) <=>
                      /\ i + 8 * j < q
                      /\ s + 8 * j + i \in DOMAIN bits
                      /\ bits[s + 8 * j + i]
           /\ client_crc_ok(sent[1])

\* four coils read from address 0 after coil 0 was set: coils 0, 1 and 3 are
\* on, coil 2 is off, and the four high bits of the byte are zero
C27_FourCoilsRead ==
    /\ Processing
    /\ request = request_words(1, 1, 0, 4)
    /\ 1 \in DOMAIN slaves
    /\ 0 \in DOMAIN slaves[1].coils
    /\ slaves[1].coils[0]
    /\ Len(sent) = 1
    /\ Len(sent[1]) = 6
    /\ At(sent[1], 3) = 11

\* the sub-store a register read addresses
ReadRegisters(frame) ==
    IF FunctionCode(frame) = 3 THEN slaves[SlaveId(frame)].holding_registers
    ELSE slaves[SlaveId(frame)].input_registers

\* [slave_id, function_code, 2q], then for each address in order the high
\* byte and the low byte of the stored value, 00 00 for an absent address
RegisterResponseBody(frame) ==
    <<SlaveId(frame), FunctionCode(frame), 2 * SecondWord(frame)>>
    \o [k \in 1..(2 * SecondWord(frame)) |->
          LET x == FirstWord(frame) + (k - 1) \div 2
              value == IF x \in DOMAIN ReadRegisters(frame)
                       THEN ReadRegisters(frame)[x] ELSE 0
          IN  IF k % 2 = 1 THEN value \div 256 ELSE value % 256]

\* a valid register read of a configured slave was processed
RegisterReadProcessed ==
    /\ Processing
    /\ Len(request) = 8
    /\ FunctionCode(request) \in {3, 4}
    /\ SlaveId(request) \in DOMAIN slaves
    /\ SecondWord(request) \in 1..125

\* holding[2014] = 0x3F80 and 2015 absent
DocumentedStore ==
    /\ 1 \in DOMAIN slaves
    /\ 2014 \in DOMAIN slaves[1].holding_registers
    /\ slaves[1].holding_registers[2014] = 16256
    /\ 2015 \notin DOMAIN slaves[1].holding_registers

RegisterReadLayout ==
    (RegisterReadProcessed /\ client_crc_ok(request))
    => sent = << RegisterResponseBody(request) \o calculate_crc(RegisterResponseBody(request)) >>

\* C28 as stated: for a valid read holding/input registers request with
\* quantity q, the response is [slave_id, function_code, 2q] followed, for
\* each address in order, by the high byte then the low byte of the stored
\* value (00 00 for an absent address), followed by the CRC; with
\* holding[2014] = 0x3F80 and 2015 absent, request 01 03 07 DE 00 02 24 0A
\* yields exactly 01 03 04 3F 80 00 00 FA 33.
C28_RegisterReadAsDocumented ==
    /\ RegisterReadLayout
    /\ (Processing /\ DocumentedStore /\ request = documented_request)
       => sent = << <<1, 3, 4, 63, 128, 0, 0, 250, 51>> >>

\* C28 as amended: the same layout; with holding[2014] = 0x3F80 and 2015
\* absent, request 01 03 07 DE 00 02 A5 45 yields exactly
\* 01 03 04 3F 80 00 00 F7 CF.
C28_RegisterReadWithTrueCrc ==
    /\ RegisterReadLayout
    /\ (Processing /\ DocumentedStore /\ request = <<1, 3, 7, 222, 0, 2, 165, 69>>)
       => sent = << <<1, 3, 4, 63, 128, 0, 0, 247, 207>> >>

\* the documented store was read with the CRC the algorithm gives
C28_DocumentedStoreRead ==
    /\ Processing
    /\ DocumentedStore
    /\ request = <<1, 3, 7, 222, 0, 2, 165, 69>>
    /\ sent = << <<1, 3, 4, 63, 128, 0, 0, 247, 207>> >>

\* the function codes the frame reader knows a layout for
FramedFunctionCodes == {1, 2, 3, 4, 5, 6, 15, 16, 20}

\* the length the layout of the waiting frame gives it; one more than what is
\* waiting when the byte count itself has not arrived
FrameLength(buffer) ==
    IF buffer[2] \in {1, 2, 3, 4, 5, 6}
    THEN 8
    ELSE IF buffer[2] \in {15, 16}
    THEN IF Len(buffer) >= 7 THEN 7 + buffer[7] + 2 ELSE Len(buffer) + 1
    ELSE IF Len(buffer) >= 3 THEN 3 + buffer[3] + 2 ELSE Len(buffer) + 1

AllBytesArrived(buffer) ==
    /\ Len(buffer) >= 2
    /\ buffer[2] \in FramedFunctionCodes
    /\ Len(buffer) >= FrameLength(buffer)

\* a step in which the loop called _read_request
ReaderPass == nops' = nops + 1 /\ op' \in {"process_request", "read_abandoned"}

\* C29: when every byte of a frame with a supported function code is in the
\* port, one pass of the reader takes exactly 8 bytes for 0x01..0x06,
\* 7 + byte_count + 2 for 0x0F and 0x10 (byte_count being the one byte after
\* address and quantity), 3 + byte_count + 2 for 0x14, hands exactly those
\* bytes on as the frame, and leaves every later byte waiting
C29_ReaderTakesExactlyTheFrame ==
    [][(ReaderPass /\ AllBytesArrived(in_waiting))
          => /\ op' = "process_request"
             /\ request' = SubSeq(in_waiting, 1, FrameLength(in_waiting))
             /\ in_waiting' = SubSeq(in_waiting, FrameLength(in_waiting) + 1,
                                     Len(in_waiting))]_vars

\* a write of two registers was taken whole and the file request sent right
\* behind it is still waiting, untouched
C29_SecondFrameLeftWaiting ==
    /\ op = "process_request"
    /\ request = request_write_multiple(1, 16, 65535, 2, 4, <<18, 52, 171, 205>>)
    /\ in_waiting = request_file_record(1, 7, file_record_fields(6, 1, 0, 4))

\* C30: a pass in which the reader finds a function code outside 0x01..0x06,
\* 0x0F, 0x10, 0x14 in the header hands no frame to the dispatcher, writes
\* nothing to the port (no exception 0x01 either), changes no counter and no
\* store, and leaves the server reading: the bytes after those two are what
\* the next pass takes its header from
C30_UnsupportedFunctionDroppedSilently ==
    [][(/\ ReaderPass
        /\ Len(in_waiting) >= 2
        /\ in_waiting[2] \notin FramedFunctionCodes)
          => /\ op' = "read_abandoned"
             /\ request' = None
             /\ sent' = <<>>
             /\ stats' = stats
             /\ slaves' = slaves
             /\ pool' = pool
             /\ in_waiting' = SubSeq(in_waiting, 3, Len(in_waiting))
             /\ is_running'
             /\ serial_is_open'
             /\ server_thread' = "while"]_vars

\* function code 0x07 addressed to the configured slave 1 was dropped; the
\* six bytes behind its header are waiting
C30_DiagnosticRequestDropped ==
    /\ op = "read_abandoned"
    /\ 1 \in DOMAIN slaves
    /\ sent = <<>>
    /\ in_waiting = SubSeq(request_words(1, 7, 0, 0), 3, 8)

\* what a read of registers 2014 and 2015 can return when accesses to the
\* slave are serialized: the values the slave was created with, or the values
\* of the write request, which is the only writer of the two registers
SerializedReads ==
    { <<create_example_slave.holding_registers[2014],
        create_example_slave.holding_registers[2015]>>,
      PoolWritten }

\* C15: accesses to one slave's sub-stores are serialized: a multi-address
\* read that runs concurrently with a write multiple request on the same
\* slave returns values that all come from the store state either entirely
\* before or entirely after that write, never a mixture.
C15_ReadNeverMixesStoreStates ==
    ( /\ op = "worker_leave_write"
      /\ request = request_words(1, 3, 2014, 2)
      /\ Len(sent) = 1
      /\ Len(sent[1]) = 9
      /\ IsNormalResponse(sent[1], request) )
    => <<ResponseRegister(request, sent[1], 2014),
         ResponseRegister(request, sent[1], 2015)>> \in SerializedReads

\* the write of registers 2014 and 2015 and the read of the same two
PoolWriteRequest ==
    request_write_multiple(1, 16, 2014, 2, 4,
                           <<Hi(PoolWritten[1]), Lo(PoolWritten[1]),
                             Hi(PoolWritten[2]), Lo(PoolWritten[2])>>)

PoolReadRequest == request_words(1, 3, 2014, 2)

\* the task has reached the port with its answer, or is past it
AtOrPastPort(t) == pool[t].pc \in {"in_write", "count"}

\* C31: for one slave, requests are applied and answered in the order their
\* frames were read from the port: a request read later does not reach the
\* port before every request read earlier has been answered, and a read of
\* registers 2014 and 2015 that was read after the write of them carries the
\* written values.
C31_AnsweredInOrderRead ==
    \A w \in DOMAIN pool : \A r \in DOMAIN pool :
        ( /\ w < r
          /\ SlaveId(pool[w].request_data) = SlaveId(pool[r].request_data)
          /\ AtOrPastPort(r) )
        => /\ pool[w].pc = "count"
           /\ ( /\ pool[w].request_data = PoolWriteRequest
                /\ pool[r].request_data = PoolReadRequest
                /\ Len(pool[r].wire) = 1 )
              => <<ResponseRegister(PoolReadRequest, pool[r].wire[1], 2014),
                   ResponseRegister(PoolReadRequest, pool[r].wire[1], 2015)>> = PoolWritten

\* a call of start_server on a server that is not running
StartServerStep == nops' = nops + 1 /\ op' \in {"start_server", "start_server_raised"}

\* C32: _connect_serial tries to open the port five times at most and
\* returns at the first attempt that succeeds; when five attempts fail the
\* error leaves start_server, which ends with is_running false and without
\* having started a server thread.
C32_FiveAttemptsThenStartFails ==
    [][StartServerStep =>
         /\ connect_call'.attempts <= 5
         /\ connect_call'.failing < 5 =>
                /\ connect_call'.attempts = connect_call'.failing + 1
                /\ ~connect_call'.raised
                /\ op' = "start_server"
                /\ is_running'
                /\ serial_is_open'
                /\ server_thread' = "while"
         /\ connect_call'.failing >= 5 =>
                /\ connect_call'.attempts = 5
                /\ connect_call'.raised
                /\ op' = "start_server_raised"
                /\ ~is_running'
                /\ server_thread' = server_thread
                /\ old_threads' = old_threads]_vars

\* start_server was called on a stopped server whose device did not open:
\* five attempts, the server thread of the first start has left the loop
\* and none was started
C32_StartGaveUpAfterFiveAttempts ==
    /\ op = "start_server_raised"
    /\ connect_call.attempts = 5
    /\ ~is_running
    /\ server_thread = "exited"
    /\ old_threads = <<>>

\* task t is at the outcome counters and this step is its worker_count
Counts(t) == pool[t].pc = "count" /\ op' = "worker_count" /\ pool' = returned(t)

\* C33: a slave's successful counter and bytes_sent go up only for a
\* response that was written to the port; a response that was dropped
\* because the port is closed is counted as failed.
C33_SuccessOnlyWhenWritten ==
    [][\A t \in DOMAIN pool :
          ( /\ Counts(t)
            /\ pool[t].response # None
            /\ SlaveId(pool[t].request_data) \in DOMAIN stats )
          => LET slave_id == SlaveId(pool[t].request_data)
             IN  IF pool[t].wire # <<>>
                 THEN /\ stats'[slave_id].successful_requests
                            = stats[slave_id].successful_requests + 1
                      /\ stats'[slave_id].bytes_sent
                            = stats[slave_id].bytes_sent + Len(pool[t].response)
                 ELSE /\ stats'[slave_id].successful_requests
                            = stats[slave_id].successful_requests
                      /\ stats'[slave_id].bytes_sent = stats[slave_id].bytes_sent
                      /\ stats'[slave_id].failed_requests
                            = stats[slave_id].failed_requests + 1]_vars

\* a call of update_register
UpdateStep == nops' = nops + 1 /\ op' \in {"update_register", "update_register_false"}

\* the field of a slave that holds the sub-store of a kind
SubStoreField(kind) ==
    CASE kind = "holding" -> "holding_registers"
      [] kind = "input" -> "input_registers"
      [] kind = "coil" -> "coils"
      [] kind = "discrete" -> "discrete_inputs"

\* what a register holds for a value, and what a coil or input does
ValueOfKind(kind, value) ==
    IF kind \in {"holding", "input"} THEN value ELSE value # 0

\* the call u returned true and set one key of one sub-store of one slave
UpdatedOneKey(u) ==
    LET slave_id == u[1]
        kind == u[2]
        address == u[3]
    IN  /\ slave_id \in DOMAIN slaves
        /\ kind \in {"holding", "input", "coil", "discrete"}
        /\ op' = "update_register"
        /\ DOMAIN slaves' = DOMAIN slaves
        /\ \A other \in DOMAIN slaves \ {slave_id} : slaves'[other] = slaves[other]
        /\ \A field \in DOMAIN slaves[slave_id] \ {SubStoreField(kind)} :
               slaves'[slave_id][field] = slaves[slave_id][field]
        /\ LET before == slaves[slave_id][SubStoreField(kind)]
               after == slaves'[slave_id][SubStoreField(kind)]
           IN  /\ DOMAIN after = DOMAIN before \cup {address}
               /\ \A a \in DOMAIN before \ {address} : after[a] = before[a]
               /\ after[address] = ValueOfKind(kind, u[4])

\* the call u returned false and changed nothing
UpdateRefused(u) ==
    /\ u[1] \notin DOMAIN slaves \/ u[2] \notin {"holding", "input", "coil", "discrete"}
    /\ op' = "update_register_false"
    /\ slaves' = slaves
    /\ stats' = stats

\* the sub-store a read request of one address reads
StoreRead(frame) ==
    LET slave == slaves[SlaveId(frame)]
    IN  CASE FunctionCode(frame) = 1 -> slave.coils
          [] FunctionCode(frame) = 2 -> slave.discrete_inputs
          [] FunctionCode(frame) = 3 -> slave.holding_registers
          [] FunctionCode(frame) = 4 -> slave.input_registers

\* the read that follows an update returns, for its first address, what the
\* sub-store holds there
ReadsBackStored ==
    ( /\ op = "update_register"
      /\ RequestStep
      /\ FunctionCode(request') \in {1, 2, 3, 4}
      /\ SlaveId(request') \in DOMAIN slaves
      /\ FirstWord(request') \in DOMAIN StoreRead(request') )
    => /\ Len(sent') = 1
       /\ IsNormalResponse(sent'[1], request')
       /\ client_crc_ok(sent'[1])
       /\ IF FunctionCode(request') \in {3, 4}
          THEN ResponseRegister(request', sent'[1], FirstWord(request'))
                   = StoreRead(request')[FirstWord(request')]
          ELSE BitSet(At(sent'[1], 3), 0) = StoreRead(request')[FirstWord(request')]

C35_KeysAndValuesWithin16Bits ==
    \A slave_id \in DOMAIN slaves :
        LET slave == slaves[slave_id]
        IN  /\ DOMAIN slave.holding_registers \subseteq 0..65535
            /\ DOMAIN slave.input_registers \subseteq 0..65535
            /\ DOMAIN slave.coils \subseteq 0..65535
            /\ DOMAIN slave.discrete_inputs \subseteq 0..65535
            /\ \A a \in DOMAIN slave.holding_registers :
                   slave.holding_registers[a] \in 0..65535
            /\ \A a \in DOMAIN slave.input_registers :
                   slave.input_registers[a] \in 0..65535

\* the task has written a frame to the port
HasWritten(t) == pool[t].pc \in {"count", "counting"} /\ pool[t].wire # <<>>

\* C36: each processed request causes one frame at most to be written to the
\* port, a normal response or an exception response and never both, whatever
\* add_slave and remove_slave do meanwhile: no step writes two frames, and a
\* task that has written its frame returns without writing another.
C36_OneFramePerRequest ==
    [][/\ Len(sent') <= 1
       /\ \A t \in DOMAIN pool :
              (HasWritten(t) /\ pool' = returned(t)) => sent' = <<>>]_vars

\* C37: a write multiple coils or write multiple registers request is all or
\* nothing: when it is answered with an exception or not answered, also when
\* its declared byte_count is larger than the payload that is there, no coil
\* and no holding register of the slave has been modified.
C37_RefusedWriteMultipleChangesNothing ==
    [][ ( /\ RequestStep
          /\ FunctionCode(request') \in {15, 16}
          /\ SlaveId(request') \in DOMAIN slaves
          /\ ~( /\ Len(sent') = 1
                /\ IsNormalResponse(sent'[1], request')
                /\ Len(sent'[1]) = 8 ) )
        => /\ SlaveId(request') \in DOMAIN slaves'
           /\ slaves'[SlaveId(request')].coils = slaves[SlaveId(request')].coils
           /\ slaves'[SlaveId(request')].holding_registers
                  = slaves[SlaveId(request')].holding_registers
      ]_vars

\* the loop of a running server took a whole frame from the port in this step
RunningServerReadFrame == is_running /\ nops' = nops + 1 /\ request' # None

\* C38: a server that was stopped and started again on the same object
\* processes requests as before: a valid request that the loop of the
\* running server reads is handed to a worker and answered, not dropped.
C38_RestartedServerAnswers ==
    [][ ( /\ RunningServerReadFrame
          /\ client_crc_ok(request')
          /\ FunctionCode(request') \in {3, 6}
          /\ SlaveId(request') \in DOMAIN slaves )
        => /\ op' = "process_request"
           /\ Len(sent') = 1
           /\ IsNormalResponse(sent'[1], request')
      ]_vars

\* a server thread at pc is inside the loop, or at its condition with the
\* flag set, so about to enter it
InsideLoop(pc) == pc = "body" \/ (pc = "while" /\ is_running)

\* the threads that execute _server_loop
ReaderThreads ==
    Len(SelectSeq(old_threads, InsideLoop)) + (IF InsideLoop(server_thread) THEN 1 ELSE 0)

\* C39: after any sequence of start_server and stop_server calls one thread at
\* most executes the server loop and reads from the port, also when
\* start_server follows a stop_server whose join timed out with the old
\* thread still inside the loop; and start_server on a running server starts
\* no second thread.
C39_OneReaderThread ==
    /\ [](ReaderThreads <= 1)
    /\ [][(nops' = nops + 1 /\ op' = "start_server_already_running")
             => /\ server_thread' = server_thread
                /\ old_threads' = old_threads]_vars

\* the lengths of the frames of a sequence, added up
RECURSIVE SumOfLengths(_)
SumOfLengths(frames) ==
    IF frames = <<>> THEN 0 ELSE Len(Head(frames)) + SumOfLengths(Tail(frames))

\* C40: once the N requests submitted for slave 1 have been fully processed
\* by the worker pool, in any interleaving, its total_requests is N and its
\* bytes_received is the sum of the lengths of N of the frames (the slave
\* was added by the first operation, and each later one submitted a request)
C40_CountersExactUnderConcurrency ==
    (pool = <<>> /\ 1 \in DOMAIN stats) =>
        /\ stats[1].total_requests = nops - 1
        /\ \E frames \in [1..(nops - 1) -> CountRequests] :
               stats[1].bytes_received = SumOfLengths(frames)

\* C16: after any sequence of add_slave and remove_slave calls the number of
\* configured slaves never exceeds server.max_slaves, and an add_slave call
\* that would exceed it fails and leaves slaves and statistics unchanged.
C16_CeilingNeverExceeded ==
    /\ [](Cardinality(DOMAIN slaves) <= config.max_slaves)
    /\ [][ (AddSlaveStep /\ Cardinality(DOMAIN slaves) = config.max_slaves)
           => (op' = "add_slave_raised" /\ slaves' = slaves /\ stats' = stats) ]_vars

\* with max_slaves = 2 and slaves 1 and 2 configured, an add_slave call failed
C16_AddAtCeilingFailed ==
    /\ op = "add_slave_raised"
    /\ config.max_slaves = 2
    /\ DOMAIN slaves = {1, 2}

\* C17 (as specified): add_slave with an identifier that is already
\* configured fails and leaves the existing slave's sub-stores and statistics
\* counters unchanged.  (A call that adds no new identifier is a call whose
\* identifier collides or that meets the ceiling; both have to fail.)
C17_AddExistingIdFails ==
    [][ (AddSlaveStep /\ DOMAIN slaves' = DOMAIN slaves)
        => (op' = "add_slave_raised" /\ slaves' = slaves /\ stats' = stats) ]_vars

\* the next operation is a call of remove_slave
RemoveSlaveStep == op' = "remove_slave" /\ nops' = nops + 1

\* C18: in every reachable state the identifiers with a statistics record are
\* exactly the configured slave identifiers, and remove_slave of an absent
\* identifier changes nothing.
C18_StatsRecordIffSlave ==
    /\ [](DOMAIN stats = DOMAIN slaves)
    /\ [][ (RemoveSlaveStep /\ DOMAIN slaves' = DOMAIN slaves)
           => (slaves' = slaves /\ stats' = stats) ]_vars

\* after a remove_slave call only slave 2 and its statistics record are left
C18_SlaveAndRecordRemoved ==
    /\ op = "remove_slave"
    /\ DOMAIN slaves = {2}
    /\ DOMAIN stats = {2}

\* C19 (as specified): whenever a read of the frame reader returns fewer
\* bytes than it asked for, the frame is abandoned, so every frame handed to
\* the dispatcher has its full length: 8 bytes for 0x01..0x06, 7 + byte_count
\* + 2 bytes for 0x0F and 0x10, 3 + byte_count + 2 bytes for 0x14.
C19_HandedFrameIsComplete ==
    Processing
    => CASE FunctionCode(request) \in {15, 16} ->
                Len(request) = 7 + At(request, 6) + 2
         [] FunctionCode(request) = 20 ->
                Len(request) = 3 + At(request, 2) + 2
         [] OTHER -> Len(request) = 8

\* the frame `answer` is the exception response with code 0x01, 0x03 or 0x04
\* to the request `frame`
IsExceptionResponse(answer, frame) ==
    /\ Len(answer) = 5
    /\ SlaveId(answer) = SlaveId(frame)
    /\ FunctionCode(answer) = FunctionCode(frame) + 128
    /\ At(answer, 2) \in {1, 3, 4}
    /\ client_crc_ok(answer)

\* C20: every request to a configured slave that is answered with an
\* exception response (0x01, 0x03 or 0x04) increments that slave's failed
\* counter by exactly one and does not increment its successful counter.
C20_ExceptionCountsAsFailed ==
    [][ ( /\ RequestStep
          /\ Len(request') >= 4
          /\ SlaveId(request') \in DOMAIN slaves
          /\ \E i \in 1..Len(sent') : IsExceptionResponse(sent'[i], request') )
        => LET slave_id == SlaveId(request')
           IN  /\ stats'[slave_id].failed_requests = stats[slave_id].failed_requests + 1
               /\ stats'[slave_id].successful_requests =
                      stats[slave_id].successful_requests
      ]_vars

\* a write of three registers that carried one register's worth of data was
\* answered with exception code 0x04 and counted as failed
C20_DeviceFailureCounted ==
    /\ ProcessedForConfiguredSlave
    /\ request = request_write_multiple(1, 16, 0, 3, 6, <<18, 52>>)
    /\ sent = << ExceptionResponse(1, 16, 4) >>
    /\ stats[1].failed_requests >= 1
    /\ stats[1].successful_requests = 0
====
